---- MODULE Spec2Model ----
(***************************************************************************)
(* A model of the wbs smart pointers: the shared pointer SP<> with its     *)
(* InternalObject (the control block: strong count, weak count, payload    *)
(* slot, mutex), the weak pointer WP<>, and the allocation cache MemCache. *)
(*                                                                         *)
(* Handle objects (SP, WP) are slots that threads construct, use and       *)
(* destroy.  A handler of a handle runs on one thread; the calls it makes  *)
(* into InternalObject are the steps other threads interleave with.  A     *)
(* handle is used by one thread at a time (busy).                          *)
(***************************************************************************)
EXTENDS Integers, Sequences, FiniteSets, TLC

\* ------------------------------------------------------------- bounds
\* Control blocks (and payloads) the program allocates over a run.
NBlocks == 2
\* Memory blocks a MemCache consumer type has outstanding or cached at once.
NMem == 6

\* nullptr
Null == 0

\* The threads of the program.
Threads == {1, 2}
\* The SP and WP objects of the program.  The SP objects of PromotedSPs are
\* the ones the program constructs with WP::GetSP, and only with it.
SPs == {1, 2, 3, 4}
WPs == {1, 2}
\* The UP objects of the program.
UPs == {1, 2}
TPs == {1, 2}
PromotedSPs == {4}
\* The objects one thread has, and the ones two threads share.
OwnSPs == {1, 2, 3}
SharedSPs == {1}
\* The SP objects that UP objects are moved into.
UPTargetSPs == {1, 2}
\* The SP and UP objects of the thread that assigns to SP objects.
AssignSPs == {1, 2}
AssignUPs == {1}
\* The SP objects of the program with peer payloads.
PeerSPs == {1, 2}
SharedWPs == {1, 2}
Blocks == 1..NBlocks
Mems == 1..NMem
NTypes == 2
Types == 1..NTypes
\* The memory blocks the objects of the consumer types live in.
NTypeMem == 4
TypeMems == 1..NTypeMem
\* One payload can be allocated per control block.
Payloads == 1..NBlocks

VARIABLES
    spAlive,        \* SP slot -> the SP object is constructed
    sp,             \* SP slot -> SP::m_internalObject (Null or a block)
    wpAlive,        \* WP slot -> the WP object is constructed
    wp,             \* WP slot -> WP::m_internalObject
    alive,          \* block -> "unalloc" | "live" | "freed" (storage of the InternalObject)
    frees,          \* block -> how many times `delete this` ran on it
    refCount,       \* block -> InternalObject::m_refCount
    weakRefCount,   \* block -> InternalObject::m_weakRefCount
    ptr,            \* block -> InternalObject::m_ptr (Null or a payload)
    lock,           \* block -> holder of InternalObject::m_lock (0: free)
    pay,            \* payload -> "unalloc" | "live" | "deleted"
    tdCount,        \* payload -> how many times its destructor ran
    todo,           \* thread -> the calls its current handler still has to make
    pc,             \* thread -> position inside the current call
    deleteMe,       \* thread -> the local deleteMe of DecRef / DecWeakRef
    op,             \* thread -> name of the handler it is running ("" when idle)
    busy,           \* thread -> the handle objects its handler uses
    upAlive,        \* UP slot -> the UP object is constructed
    up,             \* UP slot -> UP::m_ptr (Null or a payload)
    tpAlive,        \* TP slot -> the TP object is constructed
    tp,             \* TP slot -> TP::m_ptr (Null or a payload)
    owner,          \* WP slot -> the payload the WP is a data member of (Null: none)
    payloadOf,      \* history: block -> the raw pointer its InternalObject was built around
    freedBy,        \* history: block -> the method whose `delete this` released it
    sm_inUse,       \* MemCache::sm_inUse
    sm_cache,       \* MemCache::sm_cache, back of the vector last
    sm_lock,        \* holder of MemCache::sm_lock (0: free)
    holder,         \* memory block -> the thread whose object lives in it (0: none)
    mcLog,          \* the last two MemCache operations that ran
    sm_inUseOf,     \* consumer type -> MemCache<T>::sm_inUse
    sm_cacheOf,     \* consumer type -> MemCache<T>::sm_cache, back of the vector last
    typeOf,         \* memory block -> the consumer type whose object lives in it (0: none)
    inUse32,        \* MemCache::sm_inUse as the 32-bit int it is declared as
    target32        \* the local targetCacheSize of the last operator delete

histVars == <<payloadOf, freedBy>>
upVars == <<upAlive, up>>
tpVars == <<tpAlive, tp>>
memberVars == <<owner>>

ptrVars == <<spAlive, sp, wpAlive, wp, alive, frees, refCount, weakRefCount,
             ptr, lock, pay, tdCount, todo, pc, deleteMe, op, busy, histVars,
             upVars, tpVars, memberVars>>

typeVars == <<sm_inUseOf, sm_cacheOf, typeOf>>
intVars == <<inUse32, target32>>
cacheVars == <<sm_inUse, sm_cache, sm_lock, holder, mcLog, typeVars, intVars>>

vars == <<ptrVars, cacheVars>>

\* ------------------------------------------------------------ helpers
AllBusy == UNION {busy[t] : t \in Threads}
Idle(t) == todo[t] = <<>>
NotBusy(hs) == hs \cap AllBusy = {}

UnallocBlocks == {b \in Blocks : alive[b] = "unalloc"}
\* The block `new InternalObject` returns: storage never handed out before.
NewBlock == CHOOSE b \in UnallocBlocks : \A c \in UnallocBlocks : b <= c
UnallocPayloads == {p \in Payloads : pay[p] = "unalloc"}
\* The object a `new TYPESP(...)` of the caller returns.
NewPayload == CHOOSE p \in UnallocPayloads : \A q \in UnallocPayloads : p <= q

\* A call of the handler into InternalObject, and the assignments to handle
\* fields the handler makes when the call has returned.
Call(c, b, set) == [call |-> c, b |-> b, p |-> Null, h |-> 0, set |-> set]
\* `new InternalObject( p )` assigned to SP slot h.
CallNew(p, h) == [call |-> "New", b |-> Null, p |-> p, h |-> h, set |-> <<>>]
\* `new InternalObject( p )` assigned to SP slot h, and the assignments to
\* the UP the handler took p from.
CallNewFrom(p, h, set) == [call |-> "New", b |-> Null, p |-> p, h |-> h, set |-> set]

Hit(kind, set, x) == {i \in DOMAIN set : set[i][1] = kind /\ set[i][2] = x}
\* The pointer fields after the assignments of `set` (a destroyed object reads Null).
PtrAfter(kind, gone, set, f) ==
    [x \in DOMAIN f |->
        IF Hit(gone, set, x) # {} THEN Null
        ELSE IF Hit(kind, set, x) # {} THEN set[CHOOSE i \in Hit(kind, set, x) : TRUE][3]
        ELSE f[x]]
AliveAfter(gone, set, f) ==
    [x \in DOMAIN f |-> IF Hit(gone, set, x) # {} THEN FALSE ELSE f[x]]

\* The handler of thread t starts: it will make `calls`, using handles `hs`.
Begin(t, name, hs, calls) ==
    /\ todo' = [todo EXCEPT ![t] = calls]
    /\ busy' = [busy EXCEPT ![t] = IF calls = <<>> THEN {} ELSE hs]
    /\ op' = [op EXCEPT ![t] = IF calls = <<>> THEN "" ELSE name]

\* The call at the head of todo[t] returns; the handler makes the assignments `set`.
Return(t, set) ==
    /\ todo' = [todo EXCEPT ![t] = Tail(@)]
    /\ busy' = [busy EXCEPT ![t] = IF Len(todo[t]) = 1 THEN {} ELSE @]
    /\ op' = [op EXCEPT ![t] = IF Len(todo[t]) = 1 THEN "" ELSE @]
    /\ pc' = [pc EXCEPT ![t] = "call"]
    /\ sp' = PtrAfter("sp", "spGone", set, sp)
    /\ spAlive' = AliveAfter("spGone", set, spAlive)
    /\ wp' = PtrAfter("wp", "wpGone", set, wp)
    /\ wpAlive' = AliveAfter("wpGone", set, wpAlive)

InitObjects ==
    /\ spAlive = [h \in SPs |-> FALSE]
    /\ sp = [h \in SPs |-> Null]
    /\ wpAlive = [w \in WPs |-> FALSE]
    /\ wp = [w \in WPs |-> Null]
    /\ alive = [b \in Blocks |-> "unalloc"]
    /\ frees = [b \in Blocks |-> 0]
    /\ refCount = [b \in Blocks |-> 0]
    /\ weakRefCount = [b \in Blocks |-> 0]
    /\ ptr = [b \in Blocks |-> Null]
    /\ lock = [b \in Blocks |-> 0]
    /\ pay = [p \in Payloads |-> "unalloc"]
    /\ tdCount = [p \in Payloads |-> 0]
    /\ todo = [t \in Threads |-> <<>>]
    /\ pc = [t \in Threads |-> "call"]
    /\ deleteMe = [t \in Threads |-> FALSE]
    /\ op = [t \in Threads |-> ""]
    /\ busy = [t \in Threads |-> {}]
    /\ upAlive = [u \in UPs |-> FALSE]
    /\ tpAlive = [x \in TPs |-> FALSE]
    /\ tp = [x \in TPs |-> Null]
    /\ owner = [w \in WPs |-> Null]
    /\ up = [u \in UPs |-> Null]
    /\ payloadOf = [b \in Blocks |-> Null]
    /\ freedBy = [b \in Blocks |-> ""]
    /\ sm_inUse = 0
    /\ sm_cache = <<>>
    /\ sm_lock = 0
    /\ holder = [m \in Mems |-> 0]
    /\ mcLog = <<>>
    /\ sm_inUseOf = [ty \in Types |-> 0]
    /\ sm_cacheOf = [ty \in Types |-> <<>>]
    /\ typeOf = [m \in TypeMems |-> 0]

\* The state after construction: no handle, no control block, no object of
\* a consumer type.
Init ==
    /\ InitObjects
    /\ inUse32 = 0
    /\ target32 = [ok |-> TRUE, v |-> 0]

\* The history variables after a step of the pointers; `who` is the method
\* that has just released a block.
History(who) ==
    /\ payloadOf' = [b \in Blocks |->
            IF alive[b] = "unalloc" /\ alive'[b] = "live" THEN ptr'[b] ELSE payloadOf[b]]
    /\ freedBy' = [b \in Blocks |->
            IF alive[b] # "freed" /\ alive'[b] = "freed" THEN who ELSE freedBy[b]]
\* What a step of the pointers leaves alone.
Frame == UNCHANGED cacheVars /\ History("") /\ UNCHANGED <<upVars, tpVars, memberVars>>

ioVars == <<alive, frees, refCount, weakRefCount, ptr, lock, pay, tdCount>>
thrVars == <<pc, deleteMe>>
wpVars == <<wpAlive, wp>>
spVars == <<spAlive, sp>>

\* ------------------------------------------- UP< TYPESP > m_ptr of a block
\* UP::Delete on a slot holding p: the payload's destructor runs when p is set.
UP_DeletePay(p) == IF p # Null THEN [pay EXCEPT ![p] = "deleted"] ELSE pay
UP_DeleteTd(p) == IF p # Null THEN [tdCount EXCEPT ![p] = @ + 1] ELSE tdCount

\* ----------------------------------------------------- InternalObject
\* InternalObject( p ): one shared reference, no weak reference.
InitialRefCount == 1
InitialWeakRefCount == 0

\* A DecRef that decides `delete this` without looking at the weak count.
DecRef_deleteMe_ignoresWeak(rc, wc) == rc = 0
\* deleteMe as DecRef decides it, from the decremented strong count.
DecRef_deleteMe(rc, wc) == rc = 0 /\ wc = 0
\* deleteMe as DecWeakRef decides it, from the decremented weak count.
DecWeakRef_deleteMe(wc, rc) == wc = 0 /\ rc = 0
\* A DecRef that leaves the object to the destructor of the InternalObject.
DecRef_deletesObject_never(rc) == FALSE
\* A DecRef that releases the object one reference early.
DecRef_deletesObject_early(rc) == rc <= 1
\* DecRef deletes the referenced object when the decremented count is zero.
DecRef_deletesObject(rc) == rc = 0

CallIs(t, c) == todo[t] # <<>> /\ Head(todo[t]).call = c /\ pc[t] = "call"

\* new InternalObject( p ), assigned to the SP's m_internalObject.
IO_New(t) ==
    /\ CallIs(t, "New")
    /\ UnallocBlocks # {}
    /\ LET m == Head(todo[t])
           b == NewBlock
       IN  /\ alive' = [alive EXCEPT ![b] = "live"]
           /\ refCount' = [refCount EXCEPT ![b] = InitialRefCount]
           /\ weakRefCount' = [weakRefCount EXCEPT ![b] = InitialWeakRefCount]
           /\ ptr' = [ptr EXCEPT ![b] = m.p]
           /\ Return(t, << <<"sp", m.h, b>> >>)
    /\ UNCHANGED <<frees, lock, pay, tdCount, deleteMe>>
    /\ up' = PtrAfter("up", "upGone", Head(todo[t]).set, up)
    /\ UNCHANGED <<upAlive, tpVars, memberVars, cacheVars>> /\ History("")

\* AddRef: lock, ++m_refCount, unlock.
IO_AddRef(t) ==
    /\ CallIs(t, "AddRef")
    /\ LET m == Head(todo[t])
       IN  /\ lock[m.b] = 0
           /\ refCount' = [refCount EXCEPT ![m.b] = @ + 1]
           /\ Return(t, m.set)
    /\ UNCHANGED <<alive, frees, weakRefCount, ptr, lock, pay, tdCount, deleteMe>>
    /\ Frame

\* AddWeakRef: lock, ++m_weakRefCount, unlock.
IO_AddWeakRef(t) ==
    /\ CallIs(t, "AddWeakRef")
    /\ LET m == Head(todo[t])
       IN  /\ lock[m.b] = 0
           /\ weakRefCount' = [weakRefCount EXCEPT ![m.b] = @ + 1]
           /\ Return(t, m.set)
    /\ UNCHANGED <<alive, frees, refCount, ptr, lock, pay, tdCount, deleteMe>>
    /\ Frame

\* The WP objects that are data members of payload p: ~TYPESP destroys them.
Members(p) == {w \in WPs : p # Null /\ owner[w] = p}

\* DecRef up to its unlock: lock, --m_refCount, at zero m_ptr.Delete() and
\* the deleteMe decision.  The counters are unsigned: below zero stands for
\* the wrapped value.
IO_DecRef(t) ==
    /\ CallIs(t, "DecRef")
    /\ LET b == Head(todo[t]).b
           rc == refCount[b] - 1
       IN  /\ lock[b] = 0
           /\ DecRef_deletesObject(rc) => Members(ptr[b]) = {}
           /\ lock' = [lock EXCEPT ![b] = t]
           /\ refCount' = [refCount EXCEPT ![b] = rc]
           /\ IF DecRef_deletesObject(rc)
              THEN /\ pay' = UP_DeletePay(ptr[b])
                   /\ tdCount' = UP_DeleteTd(ptr[b])
                   /\ ptr' = [ptr EXCEPT ![b] = Null]
                   /\ deleteMe' = [deleteMe EXCEPT ![t] = DecRef_deleteMe(rc, weakRefCount[b])]
              ELSE /\ UNCHANGED <<pay, tdCount, ptr>>
                   /\ deleteMe' = [deleteMe EXCEPT ![t] = FALSE]
    /\ pc' = [pc EXCEPT ![t] = "dr_unlock"]
    /\ UNCHANGED <<alive, frees, weakRefCount, todo, busy, op, spVars, wpVars>>
    /\ Frame

\* DecRef that finds the count at zero, for a payload with a WP as a data
\* member: lock, --m_refCount, and m_ptr.Delete() enters the destructor of
\* the payload, which runs ~WP of the member, a DecWeakRef when the member
\* is set.  The lock of the block stays held and m_ptr stays set meanwhile.
IO_DecRef_teardown(t) ==
    /\ CallIs(t, "DecRef")
    /\ LET b == Head(todo[t]).b
           rc == refCount[b] - 1
           w == CHOOSE x \in Members(ptr[b]) : TRUE
       IN  /\ lock[b] = 0
           /\ DecRef_deletesObject(rc) /\ Members(ptr[b]) # {}
           /\ NotBusy({<<"wp", w>>})
           /\ lock' = [lock EXCEPT ![b] = t]
           /\ refCount' = [refCount EXCEPT ![b] = rc]
           /\ pay' = UP_DeletePay(ptr[b])
           /\ tdCount' = UP_DeleteTd(ptr[b])
           /\ owner' = [owner EXCEPT ![w] = Null]
           /\ todo' = [todo EXCEPT ![t] =
                  (IF wp[w] # Null
                   THEN <<Call("DecWeakRef", wp[w], << <<"wpGone", w, Null>> >>)>>
                   ELSE <<>>)
                  \o <<[Head(@) EXCEPT !.call = "DecRef_resume"]>> \o Tail(@)]
           /\ busy' = [busy EXCEPT ![t] = @ \cup {<<"wp", w>>}]
           /\ wpAlive' = IF wp[w] = Null THEN [wpAlive EXCEPT ![w] = FALSE] ELSE wpAlive
    /\ UNCHANGED <<alive, frees, weakRefCount, ptr, op, spVars, wp, thrVars>>
    /\ UNCHANGED <<cacheVars, histVars, upVars, tpVars>>

\* DecRef after the destructor of the payload has returned: UP::Delete sets
\* m_ptr = nullptr, then the deleteMe decision from the weak count as it is now.
IO_DecRef_resume(t) ==
    /\ CallIs(t, "DecRef_resume")
    /\ LET b == Head(todo[t]).b
       IN  /\ ptr' = [ptr EXCEPT ![b] = Null]
           /\ deleteMe' = [deleteMe EXCEPT ![t] = DecRef_deleteMe(refCount[b], weakRefCount[b])]
    /\ pc' = [pc EXCEPT ![t] = "dr_unlock"]
    /\ UNCHANGED <<alive, frees, refCount, weakRefCount, lock, pay, tdCount>>
    /\ UNCHANGED <<todo, busy, op, spVars, wpVars>>
    /\ Frame

\* m_lock.lock() by the thread that holds m_lock: undefined for std::mutex.
\* The thread blocks for ever, or lock() throws out of a destructor and the
\* program ends: every thread stops where it is.
IO_Relock(t) ==
    /\ todo[t] # <<>> /\ pc[t] = "call"
    /\ Head(todo[t]).call \in {"AddRef", "DecRef", "AddWeakRef", "DecWeakRef"}
    /\ lock[Head(todo[t]).b] = t
    /\ \/ /\ pc' = [pc EXCEPT ![t] = "hung"]
          /\ UNCHANGED todo
       \/ /\ pc' = [u \in Threads |-> "abort"]
          /\ todo' = [u \in Threads |->
                         <<Call("abort", Head(todo[t]).b, <<>>)>> \o todo[u]]
    /\ UNCHANGED <<alive, frees, refCount, weakRefCount, ptr, lock, pay, tdCount, deleteMe>>
    /\ UNCHANGED <<busy, op, spVars, wpVars>>
    /\ Frame

\* DecRef: m_lock.unlock(); without deleteMe the call returns.
IO_DecRef_unlock(t) ==
    /\ todo[t] # <<>> /\ pc[t] = "dr_unlock"
    /\ LET m == Head(todo[t])
       IN  /\ lock' = [lock EXCEPT ![m.b] = 0]
           /\ IF deleteMe[t]
              THEN /\ pc' = [pc EXCEPT ![t] = "dr_delete"]
                   /\ UNCHANGED <<todo, busy, op, spVars, wpVars>>
              ELSE Return(t, m.set)
    /\ UNCHANGED <<alive, frees, refCount, weakRefCount, ptr, pay, tdCount, deleteMe>>
    /\ Frame

\* `delete this`: ~InternalObject runs m_ptr.Delete(), the storage is released.
IO_Destroy(t, b, set, who) ==
    /\ pay' = UP_DeletePay(ptr[b])
    /\ tdCount' = UP_DeleteTd(ptr[b])
    /\ ptr' = [ptr EXCEPT ![b] = Null]
    /\ alive' = [alive EXCEPT ![b] = "freed"]
    /\ frees' = [frees EXCEPT ![b] = @ + 1]
    /\ deleteMe' = [deleteMe EXCEPT ![t] = FALSE]
    /\ Return(t, set)
    /\ UNCHANGED <<refCount, weakRefCount, lock>>
    /\ UNCHANGED cacheVars /\ History(who) /\ UNCHANGED <<upVars, tpVars, memberVars>>

\* DecRef: if ( deleteMe ) delete this.
IO_DecRef_delete(t) ==
    /\ todo[t] # <<>> /\ pc[t] = "dr_delete"
    /\ IO_Destroy(t, Head(todo[t]).b, Head(todo[t]).set, "DecRef")

\* DecWeakRef up to its unlock: lock, --m_weakRefCount, the deleteMe decision.
IO_DecWeakRef(t) ==
    /\ CallIs(t, "DecWeakRef")
    /\ LET b == Head(todo[t]).b
           wc == weakRefCount[b] - 1
       IN  /\ lock[b] = 0
           /\ lock' = [lock EXCEPT ![b] = t]
           /\ weakRefCount' = [weakRefCount EXCEPT ![b] = wc]
           /\ deleteMe' = [deleteMe EXCEPT ![t] = DecWeakRef_deleteMe(wc, refCount[b])]
    /\ pc' = [pc EXCEPT ![t] = "dw_unlock"]
    /\ UNCHANGED <<alive, frees, refCount, ptr, pay, tdCount, todo, busy, op, spVars, wpVars>>
    /\ Frame

\* DecWeakRef: m_lock.unlock(); without deleteMe the call returns.
IO_DecWeakRef_unlock(t) ==
    /\ todo[t] # <<>> /\ pc[t] = "dw_unlock"
    /\ LET m == Head(todo[t])
       IN  /\ lock' = [lock EXCEPT ![m.b] = 0]
           /\ IF deleteMe[t]
              THEN /\ pc' = [pc EXCEPT ![t] = "dw_delete"]
                   /\ UNCHANGED <<todo, busy, op, spVars, wpVars>>
              ELSE Return(t, m.set)
    /\ UNCHANGED <<alive, frees, refCount, weakRefCount, ptr, pay, tdCount, deleteMe>>
    /\ Frame

\* DecWeakRef: if ( deleteMe ) delete this.
IO_DecWeakRef_delete(t) ==
    /\ todo[t] # <<>> /\ pc[t] = "dw_delete"
    /\ IO_Destroy(t, Head(todo[t]).b, Head(todo[t]).set, "DecWeakRef")

\* InternalObject::GetPtr: m_ptr.UnsafeAccess(), read without the lock.
GetPtr(b) == ptr[b]

\* ------------------------------------------------------------------ SP
S(h) == <<"sp", h>>
W(w) == <<"wp", w>>
OptCall(c, b, set) == IF b # Null THEN <<Call(c, b, set)>> ELSE <<>>
\* The raw pointers a caller passes: nullptr, or an object it has just allocated.
RawArgs == {Null} \cup (IF UnallocPayloads # {} THEN {NewPayload} ELSE {})
PayAfterNew(p) == IF p # Null THEN [pay EXCEPT ![p] = "live"] ELSE pay
\* Storage is bounded: a handler that will allocate a block starts only when
\* one is left for it.
PendingNew == {u \in Threads : \E i \in DOMAIN todo[u] : todo[u][i].call = "New"}
CanAllocate == Cardinality(UnallocBlocks) > Cardinality(PendingNew)

\* SP(): m_internalObject = nullptr.
SP_Default(t, h) ==
    /\ Idle(t) /\ ~spAlive[h] /\ NotBusy({S(h)})
    /\ spAlive' = [spAlive EXCEPT ![h] = TRUE]
    /\ sp' = [sp EXCEPT ![h] = Null]
    /\ UNCHANGED <<wpVars, ioVars, thrVars, todo, busy, op>>
    /\ Frame

\* SP( TYPESP* p ): m_internalObject = new InternalObject( p ).
SP_FromRaw(t, h, p) ==
    /\ Idle(t) /\ ~spAlive[h] /\ NotBusy({S(h)})
    /\ p \in RawArgs /\ CanAllocate
    /\ spAlive' = [spAlive EXCEPT ![h] = TRUE]
    /\ pay' = PayAfterNew(p)
    /\ Begin(t, "SP_FromRaw", {S(h)}, <<CallNew(p, h)>>)
    /\ UNCHANGED <<sp, wpVars, alive, frees, refCount, weakRefCount, ptr, lock,
                   tdCount, thrVars>>
    /\ Frame

\* ~SP(): DecRef when the SP is set.
SP_Dtor(t, h) ==
    /\ Idle(t) /\ spAlive[h] /\ NotBusy({S(h)})
    /\ IF sp[h] # Null
       THEN /\ Begin(t, "SP_Dtor", {S(h)}, <<Call("DecRef", sp[h], << <<"spGone", h, Null>> >>)>>)
            /\ UNCHANGED spVars
       ELSE /\ spAlive' = [spAlive EXCEPT ![h] = FALSE]
            /\ UNCHANGED <<sp, todo, busy, op>>
    /\ UNCHANGED <<wpVars, ioVars, thrVars>>
    /\ Frame

\* A copy constructor that shares other's internal object without AddRef.
SP_Copy_noAddRef(t, h, o) ==
    /\ Idle(t) /\ ~spAlive[h] /\ spAlive[o] /\ NotBusy({S(h), S(o)})
    /\ spAlive' = [spAlive EXCEPT ![h] = TRUE]
    /\ sp' = [sp EXCEPT ![h] = sp[o]]
    /\ UNCHANGED <<wpVars, ioVars, thrVars, todo, busy, op>>
    /\ Frame

\* SP( const SP& other ): share other's internal object, AddRef when it is set.
SP_Copy(t, h, o) ==
    /\ Idle(t) /\ ~spAlive[h] /\ spAlive[o] /\ NotBusy({S(h), S(o)})
    /\ spAlive' = [spAlive EXCEPT ![h] = TRUE]
    /\ sp' = [sp EXCEPT ![h] = sp[o]]
    /\ Begin(t, "SP_Copy", {S(h), S(o)}, OptCall("AddRef", sp[o], <<>>))
    /\ UNCHANGED <<wpVars, ioVars, thrVars>>
    /\ Frame

\* A move constructor that leaves other as it was.
SP_Move_keepsSource(t, h, o) ==
    /\ Idle(t) /\ ~spAlive[h] /\ spAlive[o] /\ NotBusy({S(h), S(o)})
    /\ spAlive' = [spAlive EXCEPT ![h] = TRUE]
    /\ sp' = [sp EXCEPT ![h] = sp[o]]
    /\ UNCHANGED <<wpVars, ioVars, thrVars, todo, busy, op>>
    /\ Frame

\* SP( SP&& other ): take other's internal object, clear other; no count changes.
SP_Move(t, h, o) ==
    /\ Idle(t) /\ ~spAlive[h] /\ spAlive[o] /\ NotBusy({S(h), S(o)})
    /\ spAlive' = [spAlive EXCEPT ![h] = TRUE]
    /\ sp' = [sp EXCEPT ![h] = sp[o], ![o] = Null]
    /\ UNCHANGED <<wpVars, ioVars, thrVars, todo, busy, op>>
    /\ Frame

\* The test that makes operator=( const SP& ) do nothing.
SP_Assign_skips(h, o) == ~((o # h) /\ (sp[o] # sp[h]))
\* The test that makes operator=( SP&& ) do nothing.
SP_MoveAssign_skips(h, o) == ~(o # h)

\* operator=( const SP& other ).
SP_Assign(t, h, o) ==
    /\ Idle(t) /\ spAlive[h] /\ spAlive[o] /\ NotBusy({S(h), S(o)})
    /\ IF SP_Assign_skips(h, o)
       THEN UNCHANGED <<sp, todo, busy, op>>
       ELSE /\ Begin(t, "SP_Assign", {S(h), S(o)},
                     OptCall("DecRef", sp[h], << <<"sp", h, sp[o]>> >>)
                        \o OptCall("AddRef", sp[o], <<>>))
            /\ sp' = IF sp[h] = Null THEN [sp EXCEPT ![h] = sp[o]] ELSE sp
    /\ UNCHANGED <<spAlive, wpVars, ioVars, thrVars>>
    /\ Frame

\* operator=( SP&& other ).
SP_MoveAssign(t, h, o) ==
    /\ Idle(t) /\ spAlive[h] /\ spAlive[o] /\ NotBusy({S(h), S(o)})
    /\ IF SP_MoveAssign_skips(h, o)
       THEN UNCHANGED <<sp, todo, busy, op>>
       ELSE /\ Begin(t, "SP_MoveAssign", {S(h), S(o)},
                     OptCall("DecRef", sp[h], << <<"sp", h, sp[o]>>, <<"sp", o, Null>> >>))
            /\ sp' = IF sp[h] = Null THEN [sp EXCEPT ![h] = sp[o], ![o] = Null] ELSE sp
    /\ UNCHANGED <<spAlive, wpVars, ioVars, thrVars>>
    /\ Frame

\* An operator=( TYPESP* p ) that drops the old internal object without DecRef.
SP_AssignRaw_noDecRef(t, h, p) ==
    /\ Idle(t) /\ spAlive[h] /\ NotBusy({S(h)})
    /\ p \in RawArgs /\ CanAllocate
    /\ pay' = PayAfterNew(p)
    /\ Begin(t, "SP_AssignRaw", {S(h)}, <<CallNew(p, h)>>)
    /\ UNCHANGED <<spVars, wpVars, alive, frees, refCount, weakRefCount, ptr, lock,
                   tdCount, thrVars>>
    /\ Frame

\* operator=( TYPESP* p ): DecRef when set, then a new InternalObject( p ).
SP_AssignRaw(t, h, p) ==
    /\ Idle(t) /\ spAlive[h] /\ NotBusy({S(h)})
    /\ p \in RawArgs /\ CanAllocate
    /\ pay' = PayAfterNew(p)
    /\ Begin(t, "SP_AssignRaw", {S(h)},
             OptCall("DecRef", sp[h], <<>>) \o <<CallNew(p, h)>>)
    /\ UNCHANGED <<spVars, wpVars, alive, frees, refCount, weakRefCount, ptr, lock,
                   tdCount, thrVars>>
    /\ Frame

\* A Delete that calls DecRef and keeps m_internalObject.
SP_Delete_keepsReference(t, h) ==
    /\ Idle(t) /\ spAlive[h] /\ NotBusy({S(h)})
    /\ Begin(t, "SP_Delete", {S(h)}, OptCall("DecRef", sp[h], <<>>))
    /\ UNCHANGED <<spVars, wpVars, ioVars, thrVars>>
    /\ Frame

\* Delete(): DecRef and m_internalObject = nullptr, when the SP is set.
SP_Delete(t, h) ==
    /\ Idle(t) /\ spAlive[h] /\ NotBusy({S(h)})
    /\ Begin(t, "SP_Delete", {S(h)}, OptCall("DecRef", sp[h], << <<"sp", h, Null>> >>))
    /\ UNCHANGED <<spVars, wpVars, ioVars, thrVars>>
    /\ Frame

\* IsNull(): nullptr == m_internalObject.
SP_IsNull(h) == sp[h] = Null
\* UnsafeAccess(): nullptr, or the internal object's GetPtr().
SP_UnsafeAccess(h) == IF sp[h] = Null THEN Null ELSE GetPtr(sp[h])
\* operator==: the raw pointers compare equal.
SP_Equal(h, o) == SP_UnsafeAccess(h) = SP_UnsafeAccess(o)

\* ------------------------------------------------------------------ WP
\* WP(): m_internalObject = nullptr.
WP_Default(t, w) ==
    /\ Idle(t) /\ ~wpAlive[w] /\ NotBusy({W(w)})
    /\ wpAlive' = [wpAlive EXCEPT ![w] = TRUE]
    /\ wp' = [wp EXCEPT ![w] = Null]
    /\ UNCHANGED <<spVars, ioVars, thrVars, todo, busy, op>>
    /\ Frame

\* WP( const SP& p ): track p's internal object, AddWeakRef when it is set.
WP_FromSP(t, w, s) ==
    /\ Idle(t) /\ ~wpAlive[w] /\ spAlive[s] /\ NotBusy({W(w), S(s)})
    /\ wpAlive' = [wpAlive EXCEPT ![w] = TRUE]
    /\ wp' = [wp EXCEPT ![w] = sp[s]]
    /\ Begin(t, "WP_FromSP", {W(w), S(s)}, OptCall("AddWeakRef", sp[s], <<>>))
    /\ UNCHANGED <<spVars, ioVars, thrVars>>
    /\ Frame

\* ~WP(): DecWeakRef when the WP is set.
WP_Dtor(t, w) ==
    /\ Idle(t) /\ wpAlive[w] /\ NotBusy({W(w)})
    /\ IF wp[w] # Null
       THEN /\ Begin(t, "WP_Dtor", {W(w)}, <<Call("DecWeakRef", wp[w], << <<"wpGone", w, Null>> >>)>>)
            /\ UNCHANGED wpVars
       ELSE /\ wpAlive' = [wpAlive EXCEPT ![w] = FALSE]
            /\ UNCHANGED <<wp, todo, busy, op>>
    /\ UNCHANGED <<spVars, ioVars, thrVars>>
    /\ Frame

\* A WP( const WP& other ) that shares the internal object without AddWeakRef.
WP_Copy_noAddWeakRef(t, w, o) ==
    /\ Idle(t) /\ ~wpAlive[w] /\ wpAlive[o] /\ NotBusy({W(w), W(o)})
    /\ wpAlive' = [wpAlive EXCEPT ![w] = TRUE]
    /\ wp' = [wp EXCEPT ![w] = wp[o]]
    /\ UNCHANGED <<spVars, ioVars, thrVars, todo, busy, op>>
    /\ Frame

\* WP( const WP& other ).
WP_Copy(t, w, o) ==
    /\ Idle(t) /\ ~wpAlive[w] /\ wpAlive[o] /\ NotBusy({W(w), W(o)})
    /\ wpAlive' = [wpAlive EXCEPT ![w] = TRUE]
    /\ wp' = [wp EXCEPT ![w] = wp[o]]
    /\ Begin(t, "WP_Copy", {W(w), W(o)}, OptCall("AddWeakRef", wp[o], <<>>))
    /\ UNCHANGED <<spVars, ioVars, thrVars>>
    /\ Frame

\* WP( WP&& other ).
WP_Move(t, w, o) ==
    /\ Idle(t) /\ ~wpAlive[w] /\ wpAlive[o] /\ NotBusy({W(w), W(o)})
    /\ wpAlive' = [wpAlive EXCEPT ![w] = TRUE]
    /\ wp' = [wp EXCEPT ![w] = wp[o], ![o] = Null]
    /\ UNCHANGED <<spVars, ioVars, thrVars, todo, busy, op>>
    /\ Frame

\* The test that makes operator=( const WP& ) do nothing.
WP_Assign_skips(w, o) == ~((o # w) /\ (wp[o] # wp[w]))
\* The test that makes operator=( WP&& ) do nothing.
WP_MoveAssign_skips(w, o) == ~(o # w)

\* operator=( const WP& other ).
WP_Assign(t, w, o) ==
    /\ Idle(t) /\ wpAlive[w] /\ wpAlive[o] /\ NotBusy({W(w), W(o)})
    /\ IF WP_Assign_skips(w, o)
       THEN UNCHANGED <<wp, todo, busy, op>>
       ELSE /\ Begin(t, "WP_Assign", {W(w), W(o)},
                     OptCall("DecWeakRef", wp[w], << <<"wp", w, wp[o]>> >>)
                        \o OptCall("AddWeakRef", wp[o], <<>>))
            /\ wp' = IF wp[w] = Null THEN [wp EXCEPT ![w] = wp[o]] ELSE wp
    /\ UNCHANGED <<wpAlive, spVars, ioVars, thrVars>>
    /\ Frame

\* operator=( WP&& other ).
WP_MoveAssign(t, w, o) ==
    /\ Idle(t) /\ wpAlive[w] /\ wpAlive[o] /\ NotBusy({W(w), W(o)})
    /\ IF WP_MoveAssign_skips(w, o)
       THEN UNCHANGED <<wp, todo, busy, op>>
       ELSE /\ Begin(t, "WP_MoveAssign", {W(w), W(o)},
                     OptCall("DecWeakRef", wp[w], << <<"wp", w, wp[o]>>, <<"wp", o, Null>> >>))
            /\ wp' = IF wp[w] = Null THEN [wp EXCEPT ![w] = wp[o], ![o] = Null] ELSE wp
    /\ UNCHANGED <<wpAlive, spVars, ioVars, thrVars>>
    /\ Frame

\* operator=( const SP& p ): DecWeakRef when set, track p's internal object,
\* AddWeakRef when it is set.
WP_AssignSP(t, w, s) ==
    /\ Idle(t) /\ wpAlive[w] /\ spAlive[s] /\ NotBusy({W(w), S(s)})
    /\ Begin(t, "WP_AssignSP", {W(w), S(s)},
             OptCall("DecWeakRef", wp[w], << <<"wp", w, sp[s]>> >>)
                \o OptCall("AddWeakRef", sp[s], <<>>))
    /\ wp' = IF wp[w] = Null THEN [wp EXCEPT ![w] = sp[s]] ELSE wp
    /\ UNCHANGED <<wpAlive, spVars, ioVars, thrVars>>
    /\ Frame

\* A test of SP( InternalObject* p ) that looks at p only.
SP_FromInternal_anyBlock(p) == p # Null
\* The test of SP( InternalObject* p ): p and p->GetPtr() are non-null.  GetPtr
\* reads m_ptr without the lock.
SP_FromInternal_useful(p) == p # Null /\ GetPtr(p) # Null

\* A GetSP that shares the internal object without AddRef.
WP_GetSP_noAddRef(t, w, h) ==
    /\ Idle(t) /\ wpAlive[w] /\ ~spAlive[h] /\ NotBusy({W(w), S(h)})
    /\ spAlive' = [spAlive EXCEPT ![h] = TRUE]
    /\ sp' = [sp EXCEPT ![h] = IF SP_FromInternal_useful(wp[w]) THEN wp[w] ELSE Null]
    /\ UNCHANGED <<wpVars, ioVars, thrVars, todo, busy, op>>
    /\ Frame

\* GetSP(): SP( m_internalObject ) moved into the SP h the caller constructs
\* from it: the test, then m_internalObject = p and AddRef.
WP_GetSP(t, w, h) ==
    /\ Idle(t) /\ wpAlive[w] /\ ~spAlive[h] /\ NotBusy({W(w), S(h)})
    /\ spAlive' = [spAlive EXCEPT ![h] = TRUE]
    /\ IF SP_FromInternal_useful(wp[w])
       THEN /\ sp' = [sp EXCEPT ![h] = wp[w]]
            /\ Begin(t, "WP_GetSP", {W(w), S(h)}, <<Call("AddRef", wp[w], <<>>)>>)
       ELSE /\ sp' = [sp EXCEPT ![h] = Null]
            /\ UNCHANGED <<todo, busy, op>>
    /\ UNCHANGED <<wpVars, ioVars, thrVars>>
    /\ Frame

\* Drop(): DecWeakRef and m_internalObject = nullptr, when the WP is set.
WP_Drop(t, w) ==
    /\ Idle(t) /\ wpAlive[w] /\ NotBusy({W(w)})
    /\ Begin(t, "WP_Drop", {W(w)}, OptCall("DecWeakRef", wp[w], << <<"wp", w, Null>> >>))
    /\ UNCHANGED <<spVars, wpVars, ioVars, thrVars>>
    /\ Frame

\* IsNull(): no internal object, or its GetPtr() is null.
WP_IsNull(w) == wp[w] = Null \/ GetPtr(wp[w]) = Null

\* --------------------------------------- payloads with a WP data member
\* The WP slot that is the data member of payload p.
MemberWP(p) == p

\* SP< T > h( new T ), T a type with a data member `WP< T > peer`: the
\* constructor of T default-constructs peer, then SP( TYPESP* p ).
T_New(t, h) ==
    /\ Idle(t) /\ ~spAlive[h] /\ NotBusy({S(h)})
    /\ UnallocPayloads # {} /\ CanAllocate
    /\ ~wpAlive[MemberWP(NewPayload)] /\ NotBusy({W(MemberWP(NewPayload))})
    /\ spAlive' = [spAlive EXCEPT ![h] = TRUE]
    /\ pay' = PayAfterNew(NewPayload)
    /\ wpAlive' = [wpAlive EXCEPT ![MemberWP(NewPayload)] = TRUE]
    /\ wp' = [wp EXCEPT ![MemberWP(NewPayload)] = Null]
    /\ owner' = [owner EXCEPT ![MemberWP(NewPayload)] = NewPayload]
    /\ Begin(t, "SP_FromRaw", {S(h)}, <<CallNew(NewPayload, h)>>)
    /\ UNCHANGED <<sp, alive, frees, refCount, weakRefCount, ptr, lock, tdCount, thrVars>>
    /\ UNCHANGED <<cacheVars, upVars, tpVars>> /\ History("")

\* h->peer = s: operator-> of SP h gives the payload, then
\* WP::operator=( const SP& ) on its member.
T_SetPeer(t, h, s) ==
    /\ Idle(t) /\ spAlive[h] /\ spAlive[s] /\ NotBusy({S(h), S(s)})
    /\ SP_UnsafeAccess(h) # Null /\ Members(SP_UnsafeAccess(h)) # {}
    /\ LET w == MemberWP(SP_UnsafeAccess(h))
       IN  /\ wpAlive[w] /\ NotBusy({W(w)})
           /\ Begin(t, "WP_AssignSP", {S(h), S(s), W(w)},
                    OptCall("DecWeakRef", wp[w], << <<"wp", w, sp[s]>> >>)
                       \o OptCall("AddWeakRef", sp[s], <<>>))
           /\ wp' = IF wp[w] = Null THEN [wp EXCEPT ![w] = sp[s]] ELSE wp
    /\ UNCHANGED <<wpAlive, spVars, ioVars, thrVars>>
    /\ Frame

\* ------------------------------------------------------------------ UP
U(u) == <<"up", u>>
\* What a method of UP leaves alone.
UP_Frame ==
    /\ UNCHANGED <<spVars, wpVars, alive, frees, refCount, weakRefCount, ptr, lock>>
    /\ UNCHANGED <<thrVars, todo, busy, op, histVars, cacheVars, tpVars, memberVars>>

\* UP(): m_ptr = nullptr.
UP_Default(t, u) ==
    /\ Idle(t) /\ ~upAlive[u] /\ NotBusy({U(u)})
    /\ upAlive' = [upAlive EXCEPT ![u] = TRUE]
    /\ up' = [up EXCEPT ![u] = Null]
    /\ UNCHANGED <<pay, tdCount>>
    /\ UP_Frame

\* UP( TYPEUP* p ): m_ptr = p.
UP_FromRaw(t, u, p) ==
    /\ Idle(t) /\ ~upAlive[u] /\ NotBusy({U(u)})
    /\ p \in RawArgs
    /\ upAlive' = [upAlive EXCEPT ![u] = TRUE]
    /\ up' = [up EXCEPT ![u] = p]
    /\ pay' = PayAfterNew(p)
    /\ UNCHANGED tdCount
    /\ UP_Frame

\* UP( UP&& other ): m_ptr = other.m_ptr; other.m_ptr = nullptr.
UP_Move(t, u, o) ==
    /\ Idle(t) /\ ~upAlive[u] /\ upAlive[o] /\ NotBusy({U(u), U(o)})
    /\ upAlive' = [upAlive EXCEPT ![u] = TRUE]
    /\ up' = [up EXCEPT ![u] = up[o], ![o] = Null]
    /\ UNCHANGED <<pay, tdCount>>
    /\ UP_Frame

\* ~UP(): delete m_ptr when it is set.
UP_Dtor(t, u) ==
    /\ Idle(t) /\ upAlive[u] /\ NotBusy({U(u)})
    /\ pay' = UP_DeletePay(up[u])
    /\ tdCount' = UP_DeleteTd(up[u])
    /\ upAlive' = [upAlive EXCEPT ![u] = FALSE]
    /\ up' = [up EXCEPT ![u] = Null]
    /\ UP_Frame

\* operator=( UP&& other ): delete m_ptr when it is set, m_ptr = other.m_ptr,
\* other.m_ptr = nullptr.  There is no test for other being this object.
UP_MoveAssign(t, u, o) ==
    /\ Idle(t) /\ upAlive[u] /\ upAlive[o] /\ NotBusy({U(u), U(o)})
    /\ pay' = UP_DeletePay(up[u])
    /\ tdCount' = UP_DeleteTd(up[u])
    /\ up' = [[up EXCEPT ![u] = up[o]] EXCEPT ![o] = Null]
    /\ UNCHANGED upAlive
    /\ UP_Frame

\* operator=( TYPEUP* p ): delete m_ptr when it is set, m_ptr = p.
UP_AssignRaw(t, u, p) ==
    /\ Idle(t) /\ upAlive[u] /\ NotBusy({U(u)})
    /\ p \in RawArgs
    /\ pay' = [PayAfterNew(p) EXCEPT ![up[u]] = IF up[u] # Null THEN "deleted" ELSE @]
    /\ tdCount' = UP_DeleteTd(up[u])
    /\ up' = [up EXCEPT ![u] = p]
    /\ UNCHANGED upAlive
    /\ UP_Frame

\* Delete(): delete m_ptr and m_ptr = nullptr, when it is set.
UP_Delete(t, u) ==
    /\ Idle(t) /\ upAlive[u] /\ NotBusy({U(u)})
    /\ pay' = UP_DeletePay(up[u])
    /\ tdCount' = UP_DeleteTd(up[u])
    /\ up' = [up EXCEPT ![u] = Null]
    /\ UNCHANGED upAlive
    /\ UP_Frame

\* IsNull(): nullptr == m_ptr.
UP_IsNull(u) == up[u] = Null
\* UnsafeAccess(): m_ptr.
UP_UnsafeAccess(u) == up[u]

\* SP::operator=( UP&& p ) without its last statement: the UP keeps m_ptr.
SP_AssignUP_keepsUP(t, h, u) ==
    /\ Idle(t) /\ spAlive[h] /\ upAlive[u] /\ NotBusy({S(h), U(u)})
    /\ CanAllocate
    /\ Begin(t, "SP_AssignUP", {S(h), U(u)},
             OptCall("DecRef", sp[h], <<>>) \o <<CallNew(UP_UnsafeAccess(u), h)>>)
    /\ UNCHANGED <<spVars, wpVars, ioVars, thrVars>>
    /\ Frame

\* SP::operator=( UP&& p ): DecRef when the SP is set, then
\* m_internalObject = new InternalObject( p.UnsafeAccess() ) and
\* p.m_ptr = nullptr.
SP_AssignUP(t, h, u) ==
    /\ Idle(t) /\ spAlive[h] /\ upAlive[u] /\ NotBusy({S(h), U(u)})
    /\ CanAllocate
    /\ Begin(t, "SP_AssignUP", {S(h), U(u)},
             OptCall("DecRef", sp[h], <<>>)
                \o <<CallNewFrom(UP_UnsafeAccess(u), h, << <<"up", u, Null>> >>)>>)
    /\ UNCHANGED <<spVars, wpVars, ioVars, thrVars>>
    /\ Frame

\* ------------------------------------------------------------------ TP
\* What a method of TP leaves alone: a TP has one field, m_ptr.
TP_Frame ==
    /\ UNCHANGED <<spVars, wpVars, ioVars, upVars>>
    /\ UNCHANGED <<thrVars, todo, busy, op, histVars, cacheVars, memberVars>>

\* TP(): m_ptr = nullptr.
TP_Default(t, x) ==
    /\ Idle(t) /\ ~tpAlive[x]
    /\ tpAlive' = [tpAlive EXCEPT ![x] = TRUE]
    /\ tp' = [tp EXCEPT ![x] = Null]
    /\ TP_Frame

\* TP( const UP& owner ): m_ptr = owner.UnsafeAccess().
TP_FromUP(t, x, u) ==
    /\ Idle(t) /\ ~tpAlive[x] /\ upAlive[u] /\ NotBusy({U(u)})
    /\ tpAlive' = [tpAlive EXCEPT ![x] = TRUE]
    /\ tp' = [tp EXCEPT ![x] = UP_UnsafeAccess(u)]
    /\ TP_Frame

\* TP( const SP& owner ): m_ptr = owner.UnsafeAccess().
TP_FromSP(t, x, h) ==
    /\ Idle(t) /\ ~tpAlive[x] /\ spAlive[h] /\ NotBusy({S(h)})
    /\ tpAlive' = [tpAlive EXCEPT ![x] = TRUE]
    /\ tp' = [tp EXCEPT ![x] = SP_UnsafeAccess(h)]
    /\ TP_Frame

\* TP( const TP& other ): m_ptr = other.m_ptr.
TP_Copy(t, x, o) ==
    /\ Idle(t) /\ ~tpAlive[x] /\ tpAlive[o]
    /\ tpAlive' = [tpAlive EXCEPT ![x] = TRUE]
    /\ tp' = [tp EXCEPT ![x] = tp[o]]
    /\ TP_Frame

\* ~TP(): nothing; the object is gone.
TP_Dtor(t, x) ==
    /\ Idle(t) /\ tpAlive[x]
    /\ tpAlive' = [tpAlive EXCEPT ![x] = FALSE]
    /\ tp' = [tp EXCEPT ![x] = Null]
    /\ TP_Frame

\* operator=( const TP& other ): m_ptr = other.m_ptr.
TP_Assign(t, x, o) ==
    /\ Idle(t) /\ tpAlive[x] /\ tpAlive[o]
    /\ tp' = [tp EXCEPT ![x] = tp[o]]
    /\ UNCHANGED tpAlive
    /\ TP_Frame

\* Release() that deletes what m_ptr points to before it clears m_ptr.
TP_Release_deletes(t, x) ==
    /\ Idle(t) /\ tpAlive[x]
    /\ tp' = [tp EXCEPT ![x] = Null]
    /\ pay' = UP_DeletePay(tp[x])
    /\ tdCount' = UP_DeleteTd(tp[x])
    /\ UNCHANGED <<tpAlive, spVars, wpVars, upVars>>
    /\ UNCHANGED <<alive, frees, refCount, weakRefCount, ptr, lock>>
    /\ UNCHANGED <<thrVars, todo, busy, op, histVars, cacheVars, memberVars>>

\* Release(): m_ptr = nullptr.
TP_Release(t, x) ==
    /\ Idle(t) /\ tpAlive[x]
    /\ tp' = [tp EXCEPT ![x] = Null]
    /\ UNCHANGED tpAlive
    /\ TP_Frame

\* IsNull(): nullptr == m_ptr.
TP_IsNull(x) == tp[x] = Null
\* RawAccess(): m_ptr.
TP_RawAccess(x) == tp[x]

\* ------------------------------------------------------------ MemCache
CACHE_RATE == 50

\* Division of C++ ints: the quotient is truncated toward zero.
IntDiv(a, b) == IF a >= 0 THEN a \div b ELSE -((-a) \div b)
\* A target computed from sm_inUse as it was before operator delete decremented it.
TargetCacheSize_beforeDecrement(inUse) == IntDiv((inUse + 1) * CACHE_RATE, 100)
\* int targetCacheSize = sm_inUse * CACHE_RATE / 100, from the decremented sm_inUse.
TargetCacheSize(inUse) == IntDiv(inUse * CACHE_RATE, 100)

RECURSIVE EvictLoop(_, _, _)
\* An eviction loop that takes the blocks from the front of the vector.
EvictLoop_oldestFirst(cache, size, target) ==
    IF (0 # size) /\ (size > target)
    THEN EvictLoop(SubSeq(cache, 2, Len(cache)), size - 1, target)
    ELSE cache
\* An eviction loop that tests size > targetCacheSize once and then runs
\* until the vector is empty.
EvictLoop_toEmpty(cache, size, target) ==
    IF (0 # size) /\ (size > target) THEN <<>> ELSE cache
\* An eviction loop that always leaves the last block in the cache.
EvictLoop_keepsOne(cache, size, target) ==
    IF (1 < size) /\ (size > target)
    THEN EvictLoop(SubSeq(cache, 1, Len(cache) - 1), size - 1, target)
    ELSE cache
\* while ( ( 0 != size ) && ( size > targetCacheSize ) ): delete the back, pop it, --size.
EvictLoop(cache, size, target) ==
    IF (0 # size) /\ (size > target)
    THEN EvictLoop(SubSeq(cache, 1, Len(cache) - 1), size - 1, target)
    ELSE cache

Cached == {sm_cache[i] : i \in DOMAIN sm_cache}
\* Memory the global allocator holds: in no object and not in the cache.
FreeMems == {m \in Mems : holder[m] = 0 /\ m \notin Cached}
\* The block ::new char[ size ] returns.
FreshMem == CHOOSE m \in FreeMems : \A n \in FreeMems : m <= n
\* operator new takes from the cache when it holds a block.
\* An operator new that never looks into the cache.
New_neverFromCache(cache) == FALSE
New_fromCache(cache) == 0 < Len(cache)

Logged(e) == IF Len(mcLog) < 2 THEN Append(mcLog, e) ELSE <<mcLog[2], e>>

\* An operator new that returns sm_cache.back() and leaves it in the vector.
MC_New_noPop(t) ==
    /\ sm_lock = 0
    /\ IF New_fromCache(sm_cache)
       THEN /\ sm_cache' = sm_cache
            /\ holder' = [holder EXCEPT ![sm_cache[Len(sm_cache)]] = t]
            /\ mcLog' = Logged([kind |-> "new", t |-> t, m |-> sm_cache[Len(sm_cache)],
                                fresh |-> FALSE])
       ELSE /\ FreeMems # {}
            /\ sm_cache' = sm_cache
            /\ holder' = [holder EXCEPT ![FreshMem] = t]
            /\ mcLog' = Logged([kind |-> "new", t |-> t, m |-> FreshMem, fresh |-> TRUE])
    /\ sm_inUse' = sm_inUse + 1
    /\ UNCHANGED <<sm_lock, ptrVars, typeVars, intVars>>

\* operator new( size ) when the allocation succeeds.  sm_lock is held from
\* the first statement to the last and nothing reads the statics without it.
MC_New(t) ==
    /\ sm_lock = 0
    /\ IF New_fromCache(sm_cache)
       THEN /\ sm_cache' = SubSeq(sm_cache, 1, Len(sm_cache) - 1)
            /\ holder' = [holder EXCEPT ![sm_cache[Len(sm_cache)]] = t]
            /\ mcLog' = Logged([kind |-> "new", t |-> t, m |-> sm_cache[Len(sm_cache)],
                                fresh |-> FALSE])
       ELSE /\ FreeMems # {}
            /\ sm_cache' = sm_cache
            /\ holder' = [holder EXCEPT ![FreshMem] = t]
            /\ mcLog' = Logged([kind |-> "new", t |-> t, m |-> FreshMem, fresh |-> TRUE])
    /\ sm_inUse' = sm_inUse + 1
    /\ UNCHANGED <<sm_lock, ptrVars, typeVars, intVars>>

\* An operator new that counts the object before ::new char[ size ] throws.
MC_NewFails_counted(t) ==
    /\ sm_lock = 0
    /\ ~New_fromCache(sm_cache)
    /\ sm_lock' = t
    /\ sm_inUse' = sm_inUse + 1
    /\ mcLog' = Logged([kind |-> "badalloc", t |-> t, m |-> 0, fresh |-> FALSE])
    /\ UNCHANGED <<sm_cache, holder, ptrVars, typeVars, intVars>>

\* operator new( size ) when ::new char[ size ] throws: the statements after
\* it, ++sm_inUse and sm_lock.unlock(), do not run.
MC_NewFails(t) ==
    /\ sm_lock = 0
    /\ ~New_fromCache(sm_cache)
    /\ sm_lock' = t
    /\ mcLog' = Logged([kind |-> "badalloc", t |-> t, m |-> 0, fresh |-> FALSE])
    /\ UNCHANGED <<sm_inUse, sm_cache, holder, ptrVars, typeVars, intVars>>

\* operator delete( mem ) of a block the thread's object lives in.
MC_Delete(t, m) ==
    /\ sm_lock = 0
    /\ holder[m] = t
    /\ LET pushed == Append(sm_cache, m)
           inUse == sm_inUse - 1
       IN  /\ sm_inUse' = inUse
           /\ sm_cache' = EvictLoop(pushed, Len(pushed), TargetCacheSize(inUse))
    /\ holder' = [holder EXCEPT ![m] = 0]
    /\ mcLog' = Logged([kind |-> "delete", t |-> t, m |-> m, fresh |-> FALSE])
    /\ UNCHANGED <<sm_lock, ptrVars, typeVars, intVars>>

\* The statics of MemCache are members of a class template: each consumer
\* type T has its own sm_inUse, sm_cache and sm_lock.
CachedOf(ty) == {sm_cacheOf[ty][i] : i \in DOMAIN sm_cacheOf[ty]}
\* Memory the global allocator holds: in no object and in no type's cache.
FreeMemsOfTypes == {m \in TypeMems : typeOf[m] = 0 /\ \A ty \in Types : m \notin CachedOf(ty)}
FreshMemOfTypes == CHOOSE m \in FreeMemsOfTypes : \A n \in FreeMemsOfTypes : m <= n

\* An operator new whose sm_inUse is one counter shared by every consumer type.
MCT_New_sharedInUse(ty) ==
    /\ IF New_fromCache(sm_cacheOf[ty])
       THEN /\ sm_cacheOf' = [sm_cacheOf EXCEPT ![ty] = SubSeq(@, 1, Len(@) - 1)]
            /\ typeOf' = [typeOf EXCEPT ![sm_cacheOf[ty][Len(sm_cacheOf[ty])]] = ty]
       ELSE /\ FreeMemsOfTypes # {}
            /\ sm_cacheOf' = sm_cacheOf
            /\ typeOf' = [typeOf EXCEPT ![FreshMemOfTypes] = ty]
    /\ sm_inUseOf' = [x \in Types |-> sm_inUseOf[x] + 1]
    /\ UNCHANGED <<ptrVars, sm_inUse, sm_cache, sm_lock, holder, mcLog, intVars>>

\* T::operator new( size ) of consumer type ty when the allocation succeeds.
MCT_New(ty) ==
    /\ IF New_fromCache(sm_cacheOf[ty])
       THEN /\ sm_cacheOf' = [sm_cacheOf EXCEPT ![ty] = SubSeq(@, 1, Len(@) - 1)]
            /\ typeOf' = [typeOf EXCEPT ![sm_cacheOf[ty][Len(sm_cacheOf[ty])]] = ty]
       ELSE /\ FreeMemsOfTypes # {}
            /\ sm_cacheOf' = sm_cacheOf
            /\ typeOf' = [typeOf EXCEPT ![FreshMemOfTypes] = ty]
    /\ sm_inUseOf' = [sm_inUseOf EXCEPT ![ty] = @ + 1]
    /\ UNCHANGED <<ptrVars, sm_inUse, sm_cache, sm_lock, holder, mcLog, intVars>>

\* T::operator delete( mem ) of a block an object of consumer type ty lives in.
MCT_Delete(ty, m) ==
    /\ typeOf[m] = ty
    /\ LET pushed == Append(sm_cacheOf[ty], m)
           inUse == sm_inUseOf[ty] - 1
       IN  /\ sm_inUseOf' = [sm_inUseOf EXCEPT ![ty] = inUse]
           /\ sm_cacheOf' = [sm_cacheOf EXCEPT
                                ![ty] = EvictLoop(pushed, Len(pushed), TargetCacheSize(inUse))]
    /\ typeOf' = [typeOf EXCEPT ![m] = 0]
    /\ UNCHANGED <<ptrVars, sm_inUse, sm_cache, sm_lock, holder, mcLog, intVars>>

\* A consumer type allocates or releases one of its objects.
TypeStep(ty) ==
    \/ MCT_New(ty)
    \/ \E m \in TypeMems : MCT_Delete(ty, m)

\* ------------------------------------------- the counter as a 32-bit int
\* static inline int sm_inUse: the largest value of an int.
INT_MAX == 2147483647
\* Products are kept as two 16-bit halves, hi * Half + lo.
Half == 65536

\* inUse * CACHE_RATE in unbounded arithmetic.
WideProduct(inUse) ==
    LET low == (inUse % Half) * CACHE_RATE
    IN  [hi |-> (inUse \div Half) * CACHE_RATE + low \div Half, lo |-> low % Half]
\* The product is larger than INT_MAX: the int multiplication overflows.
Overflows(inUse) == WideProduct(inUse).hi >= Half \div 2
\* The int a two's complement multiplication leaves: the low 32 bits of the product.
WrappedProduct(inUse) ==
    LET w == WideProduct(inUse)
        h == w.hi % Half
    IN  IF h >= Half \div 2 THEN (h - Half) * Half + w.lo ELSE h * Half + w.lo
\* floor( inUse * CACHE_RATE / 100 ) in unbounded arithmetic.
WideTarget(inUse) ==
    LET w == WideProduct(inUse)
    IN  (w.hi \div 100) * Half + ((w.hi % 100) * Half + w.lo) \div 100

\* A target computed by an int multiplication that never overflows.
TargetOutcomes_wide(inUse) == {[ok |-> TRUE, v |-> WideTarget(inUse)]}
\* int targetCacheSize = sm_inUse * CACHE_RATE / 100 with int operands.  An
\* overflow of the multiplication is undefined: a build can divide the
\* wrapped product, can fold the expression to sm_inUse / 2, or can trap.
TargetOutcomes(inUse) ==
    IF Overflows(inUse)
    THEN {[ok |-> TRUE, v |-> IntDiv(WrappedProduct(inUse), 100)],
          [ok |-> TRUE, v |-> inUse \div 2],
          [ok |-> FALSE, v |-> 0]}
    ELSE {[ok |-> TRUE, v |-> IntDiv(WrappedProduct(inUse), 100)]}

\* The values of sm_inUse the counter is followed through: next to 0, next
\* to the first product above INT_MAX, and next to INT_MAX.
Window == 20
FirstOverflow == INT_MAX \div CACHE_RATE + 1
InUseRange ==
    (0..Window) \cup ((FirstOverflow - Window)..(FirstOverflow + Window))
                \cup {INT_MAX - i : i \in 0..Window}

\* operator new: ++sm_inUse.
MC32_New ==
    /\ target32.ok
    /\ inUse32 < INT_MAX
    /\ inUse32 + 1 \in InUseRange
    /\ inUse32' = inUse32 + 1
    /\ UNCHANGED <<target32, ptrVars, sm_inUse, sm_cache, sm_lock, holder, mcLog, typeVars>>

\* operator delete: --sm_inUse, then targetCacheSize from the new value.
MC32_Delete ==
    /\ target32.ok
    /\ inUse32 > 0
    /\ inUse32 - 1 \in InUseRange
    /\ inUse32' = inUse32 - 1
    /\ target32' \in TargetOutcomes(inUse32 - 1)
    /\ UNCHANGED <<ptrVars, sm_inUse, sm_cache, sm_lock, holder, mcLog, typeVars>>

\* A program with any number of objects of one consumer type in use.
InitInt ==
    /\ InitObjects
    /\ inUse32 \in InUseRange
    /\ target32 = [ok |-> TRUE, v |-> 0]
NextInt == MC32_New \/ MC32_Delete
SpecInt == InitInt /\ [][NextInt]_vars

NextCache ==
    \E t \in Threads :
        \/ MC_New(t)
        \/ MC_NewFails(t)
        \/ \E m \in Mems : MC_Delete(t, m)

\* The allocation cache of one consumer type, used by the threads.
SpecCache == Init /\ [][NextCache]_vars

\* ------------------------------------------------------- specification
\* The handlers a thread can start on the SP objects HS, the promoted SP
\* objects HG and the WP objects HW.
Handler(t, HS, HG, HW) ==
    \/ \E h \in HS : SP_Default(t, h)
    \/ \E h \in HS, p \in Payloads \cup {Null} : SP_FromRaw(t, h, p)
    \/ \E h \in HS \cup HG : SP_Dtor(t, h)
    \/ \E h \in HS, o \in HS \cup HG : SP_Copy(t, h, o)
    \/ \E h \in HS, o \in HS \cup HG : SP_Move(t, h, o)
    \/ \E h \in HS, o \in HS \cup HG : SP_Assign(t, h, o)
    \/ \E h \in HS, o \in HS \cup HG : SP_MoveAssign(t, h, o)
    \/ \E h \in HS, p \in Payloads \cup {Null} : SP_AssignRaw(t, h, p)
    \/ \E h \in HS \cup HG : SP_Delete(t, h)
    \/ \E w \in HW : WP_Default(t, w)
    \/ \E w \in HW, s \in HS \cup HG : WP_FromSP(t, w, s)
    \/ \E w \in HW : WP_Dtor(t, w)
    \/ \E w, o \in HW : WP_Copy(t, w, o)
    \/ \E w, o \in HW : WP_Move(t, w, o)
    \/ \E w, o \in HW : WP_Assign(t, w, o)
    \/ \E w, o \in HW : WP_MoveAssign(t, w, o)
    \/ \E w \in HW, s \in HS \cup HG : WP_AssignSP(t, w, s)
    \/ \E w \in HW, h \in HG : WP_GetSP(t, w, h)
    \/ \E w \in HW : WP_Drop(t, w)

InternalObjectStep(t) ==
    \/ IO_New(t)
    \/ IO_AddRef(t)
    \/ IO_AddWeakRef(t)
    \/ IO_DecRef(t)
    \/ IO_DecRef_unlock(t)
    \/ IO_DecRef_delete(t)
    \/ IO_DecWeakRef(t)
    \/ IO_DecWeakRef_unlock(t)
    \/ IO_DecWeakRef_delete(t)

Next == \E t \in Threads : Handler(t, SharedSPs, PromotedSPs, SharedWPs) \/ InternalObjectStep(t)

\* Threads interleave at every call into an InternalObject.
Spec == Init /\ [][Next]_vars

\* One thread: every handler runs to its end before the next starts.
NextSeq == Handler(1, OwnSPs, PromotedSPs, WPs) \/ InternalObjectStep(1)
SpecSeq == Init /\ [][NextSeq]_vars

\* The methods of UP, and of SP as far as an object that came from a UP
\* needs them.
NextUP ==
    \/ \E u \in UPs : UP_Default(1, u)
    \/ \E u \in UPs, p \in Payloads \cup {Null} : UP_FromRaw(1, u, p)
    \/ \E u, o \in UPs : UP_Move(1, u, o)
    \/ \E u \in UPs : UP_Dtor(1, u)
    \/ \E u, o \in UPs : UP_MoveAssign(1, u, o)
    \/ \E u \in UPs, p \in Payloads \cup {Null} : UP_AssignRaw(1, u, p)
    \/ \E u \in UPs : UP_Delete(1, u)
    \/ \E h \in UPTargetSPs : SP_Default(1, h)
    \/ \E h \in UPTargetSPs, u \in UPs : SP_AssignUP(1, h, u)
    \/ \E h, o \in UPTargetSPs : SP_Copy(1, h, o)
    \/ \E h \in UPTargetSPs : SP_Delete(1, h)
    \/ \E h \in UPTargetSPs : SP_Dtor(1, h)
    \/ IO_New(1)
    \/ IO_AddRef(1)
    \/ IO_DecRef(1)
    \/ IO_DecRef_unlock(1)
    \/ IO_DecRef_delete(1)

\* One thread that uses UP objects and moves them into SP objects.
SpecUP == Init /\ [][NextUP]_vars

\* A method of TP runs on thread t.
TP_Step(t) ==
    \/ \E x \in TPs : TP_Default(t, x)
    \/ \E x \in TPs, u \in UPs : TP_FromUP(t, x, u)
    \/ \E x \in TPs, h \in UPTargetSPs : TP_FromSP(t, x, h)
    \/ \E x, o \in TPs : TP_Copy(t, x, o)
    \/ \E x \in TPs : TP_Dtor(t, x)
    \/ \E x, o \in TPs : TP_Assign(t, x, o)
    \/ \E x \in TPs : TP_Release(t, x)

\* One thread that uses UP and SP objects and TP objects built from them.
NextTP == NextUP \/ TP_Step(1)
SpecTP == Init /\ [][NextTP]_vars

\* The SP and WP objects of the program that also allocates objects of two
\* consumer types of MemCache.
OneSPs == {1, 2}
OneWPs == {1}
\* The handlers that copy, move, promote, release and drop a handle.
OneBlockHandler(t) ==
    \/ \E h \in OneSPs, p \in Payloads : SP_FromRaw(t, h, p)
    \/ \E h \in OneSPs \cup PromotedSPs : SP_Dtor(t, h)
    \/ \E h \in OneSPs, o \in OneSPs \cup PromotedSPs : SP_Copy(t, h, o)
    \/ \E h \in OneSPs, o \in OneSPs \cup PromotedSPs : SP_Move(t, h, o)
    \/ \E h \in OneSPs \cup PromotedSPs : SP_Delete(t, h)
    \/ \E w \in OneWPs, s \in OneSPs \cup PromotedSPs : WP_FromSP(t, w, s)
    \/ \E w \in OneWPs : WP_Dtor(t, w)
    \/ \E w \in OneWPs, h \in PromotedSPs : WP_GetSP(t, w, h)
    \/ \E w \in OneWPs : WP_Drop(t, w)

NextIsolation ==
    \/ OneBlockHandler(1)
    \/ InternalObjectStep(1)
    \/ \E ty \in Types : TypeStep(ty)

\* One thread that uses handles on several control blocks and objects of
\* several consumer types.
SpecIsolation == Init /\ [][NextIsolation]_vars

\* What thread t does in a program whose payloads each have a WP to a peer.
PeerStep(t) ==
    \/ \E h \in PeerSPs : T_New(t, h)
    \/ \E h, s \in PeerSPs : T_SetPeer(t, h, s)
    \/ \E h \in PeerSPs : SP_Dtor(t, h)
    \/ IO_New(t)
    \/ IO_AddWeakRef(t)
    \/ IO_DecRef_teardown(t)
    \/ IO_DecRef_resume(t)
    \/ IO_DecRef_unlock(t)
    \/ IO_DecRef_delete(t)
    \/ IO_DecWeakRef(t)
    \/ IO_DecWeakRef_unlock(t)
    \/ IO_DecWeakRef_delete(t)
    \/ IO_Relock(t)

\* The steps of thread t inside a handler.
PeerCallStep(t) == todo[t] # <<>> /\ PeerStep(t)

NextPeer == \E t \in Threads : PeerStep(t)

\* Two threads and payloads that hold a WP to a peer; a thread inside a
\* handler is scheduled again and again, and gets the lock it waits for
\* when the lock is free again and again.
SpecPeer ==
    Init /\ [][NextPeer]_vars /\ \A t \in Threads : SF_vars(PeerCallStep(t))

\* One thread that assigns to SP objects: from an SP, from a moved SP, from
\* a raw pointer and from a UP.
NextAssign ==
    \/ \E h \in AssignSPs : SP_Default(1, h)
    \/ \E h \in AssignSPs, p \in Payloads \cup {Null} : SP_FromRaw(1, h, p)
    \/ \E h, o \in AssignSPs : SP_Copy(1, h, o)
    \/ \E h \in AssignSPs : SP_Dtor(1, h)
    \/ \E h, o \in AssignSPs : SP_Assign(1, h, o)
    \/ \E h, o \in AssignSPs : SP_MoveAssign(1, h, o)
    \/ \E h \in AssignSPs, p \in Payloads \cup {Null} : SP_AssignRaw(1, h, p)
    \/ \E h \in AssignSPs, u \in AssignUPs : SP_AssignUP(1, h, u)
    \/ \E u \in AssignUPs, p \in Payloads \cup {Null} : UP_FromRaw(1, u, p)
    \/ \E u \in AssignUPs : UP_Dtor(1, u)
    \/ IO_New(1)
    \/ IO_AddRef(1)
    \/ IO_DecRef(1)
    \/ IO_DecRef_unlock(1)
    \/ IO_DecRef_delete(1)
SpecAssign == Init /\ [][NextAssign]_vars

TypeOK ==
    /\ sp \in [SPs -> Blocks \cup {Null}]
    /\ wp \in [WPs -> Blocks \cup {Null}]
    /\ \A b \in Blocks : lock[b] \in Threads \cup {0}

\* No handler is running.
Quiet == \A t \in Threads : todo[t] = <<>>
\* The block of the call thread t is in.
CallBlock(t) == Head(todo[t]).b
\* The SP objects that reference block b.
Holders(b) == {h \in SPs : spAlive[h] /\ sp[h] = b}
\* The WP objects that reference block b.
Watchers(b) == {w \in WPs : wpAlive[w] /\ wp[w] = b}
\* A call into a released InternalObject.
UseAfterFree ==
    \E t \in Threads : /\ todo[t] # <<>>
                       /\ Head(todo[t]).call # "New"
                       /\ alive[CallBlock(t)] # "live"
NoUseAfterFree == ~UseAfterFree

\* ------------------------------------------------------------ properties

\* C1: once the strong count of a block has reached 0, no GetSP on a WP of
\* the block gives a non-empty SP: the AddRef of a GetSP, which makes the SP
\* it returns a reference of the block, never finds the strong count at 0.
C1_GetSPNeverRevives ==
    [][\A t \in Threads :
          (op[t] = "WP_GetSP" /\ IO_AddRef(t)) => refCount[CallBlock(t)] > 0]_vars

\* C2: the payload of a block is torn down exactly once, and by the DecRef
\* that takes the strong count of the block from 1 to 0: no other step tears
\* a payload down, and after such a DecRef the payload has been torn down
\* once.
C2_TeardownAtLastDecRef ==
    [][\A p \in Payloads :
          /\ tdCount'[p] <= 1
          /\ tdCount'[p] # tdCount[p] =>
                \E t \in Threads : /\ IO_DecRef(t)
                                   /\ payloadOf[CallBlock(t)] = p
                                   /\ refCount[CallBlock(t)] = 1
                                   /\ refCount'[CallBlock(t)] = 0
          /\ \A t \in Threads :
                (/\ IO_DecRef(t)
                 /\ payloadOf[CallBlock(t)] = p
                 /\ refCount[CallBlock(t)] = 1) => tdCount'[p] = 1]_vars

\* A block has been released after its payload was torn down by DecRef, and
\* the destructor of the block has not torn the payload down again.
C2_Witness ==
    \E b \in Blocks : /\ alive[b] = "freed"
                      /\ payloadOf[b] # Null
                      /\ tdCount[payloadOf[b]] = 1
                      /\ pay[payloadOf[b]] = "deleted"

\* The thread that has decided to release block b and has not done it yet.
Releasing(b) ==
    {t \in Threads : todo[t] # <<>> /\ CallBlock(t) = b /\ deleteMe[t]}

\* C3: the storage of a block is released exactly once, by the DecRef that
\* finds both counts at 0 or by the DecWeakRef that finds both counts at 0,
\* whichever comes last: a block is released only with both counts at 0 and
\* no handle on it, never twice, and a block whose counts are both 0 is
\* released or has the thread that decided it about to release it.
C3_BlockReleasedOnce ==
    [][\A b \in Blocks :
          /\ frees'[b] <= 1
          /\ (alive[b] = "live" /\ alive'[b] = "freed") =>
                /\ refCount[b] = 0 /\ weakRefCount[b] = 0
                /\ freedBy'[b] \in {"DecRef", "DecWeakRef"}
          /\ \A t \in Threads :
                /\ (IO_DecRef(t) /\ CallBlock(t) = b) =>
                      (deleteMe'[t] <=> (refCount'[b] = 0 /\ weakRefCount'[b] = 0))
                /\ (IO_DecWeakRef(t) /\ CallBlock(t) = b) =>
                      (deleteMe'[t] <=> (refCount'[b] = 0 /\ weakRefCount'[b] = 0))
          /\ (alive'[b] = "live" /\ refCount'[b] = 0 /\ weakRefCount'[b] = 0) =>
                Cardinality(Releasing(b)') = 1]_vars

\* A block outlived its last SP through a WP and was released by DecWeakRef.
C3_Witness ==
    \E b \in Blocks : /\ freedBy[b] = "DecWeakRef"
                      /\ frees[b] = 1
                      /\ payloadOf[b] # Null
                      /\ tdCount[payloadOf[b]] = 1

\* The last operation of the cache, and the one before it.
LastOp == mcLog[Len(mcLog)]
PrevOp == mcLog[Len(mcLog) - 1]
AfterDelete == mcLog # <<>> /\ LastOp.kind = "delete"
\* The last two operations were a delete and then a new that found nothing
\* else in use: one turn of a cycle of new and delete on one type.
CycleTurn ==
    /\ Len(mcLog) = 2
    /\ PrevOp.kind = "delete" /\ LastOp.kind = "new"
    /\ PrevOp.t = LastOp.t
    /\ sm_inUse = 1

\* C4: after every operator delete the cache holds at most
\* floor( sm_inUse * 50 / 100 ) blocks, sm_inUse being the count after the
\* decrement of that delete.
C4_CacheBoundAfterDelete ==
    AfterDelete => Len(sm_cache) <= (sm_inUse * 50) \div 100

\* A delete has left a block in the cache, and the cache is as large as the
\* bound allows.
C4_Witness ==
    /\ AfterDelete
    /\ Len(sm_cache) >= 1
    /\ Len(sm_cache) = (sm_inUse * 50) \div 100

\* C5 as stated: in a cycle of new and delete on one type, every new after
\* the first is served from the cache, with the block the delete before it
\* put there.
C5_CycleServedFromCache ==
    CycleTurn => (~LastOp.fresh /\ LastOp.m = PrevOp.m)

\* C5, amended: in a cycle of new and delete on one type every delete leaves
\* the cache empty (its bound is floor( 0 * 50 / 100 ) = 0), so every new of
\* the cycle finds the cache empty and allocates afresh; the cache never
\* holds a block during the cycle.
C5_CycleAllocatesAfresh ==
    /\ (AfterDelete /\ sm_inUse = 0) => sm_cache = <<>>
    /\ CycleTurn => (LastOp.fresh /\ sm_cache = <<>>)

\* A new has followed a delete of the same thread with nothing else in use.
C5_Witness == CycleTurn /\ LastOp.fresh

\* Between handlers: the payload block b was built around is alive and not
\* torn down while an SP holds b, one reference counted per SP, and torn
\* down once when none does.
PayloadWhileHeld(b) ==
    LET p == payloadOf[b]
        n == Cardinality(Holders(b))
    IN  (Quiet /\ alive[b] # "unalloc" /\ p # Null) =>
            /\ n >= 1 => (pay[p] = "live" /\ tdCount[p] = 0 /\ refCount[b] = n)
            /\ n = 0 => (pay[p] = "deleted" /\ tdCount[p] = 1 /\ refCount[b] = 0)

\* C6: of n SPs sharing one block by copies, released in any order, the
\* payload stays alive after each of the first n - 1 releases and is torn
\* down, once, at the n-th: whenever no handler runs, the payload is alive
\* exactly while some SP still holds the block, and the step that tears it
\* down is the DecRef of the only SP left on the block.
C6_TeardownAtLastOfCopies ==
    [][\A b \in Blocks :
          /\ PayloadWhileHeld(b)'
          /\ (payloadOf[b] # Null /\ tdCount'[payloadOf[b]] # tdCount[payloadOf[b]]) =>
                /\ Cardinality(Holders(b)) = 1
                /\ \E t \in Threads : IO_DecRef(t) /\ CallBlock(t) = b]_vars

\* Two of three SPs have been released (they are empty) and the third still
\* holds the block: the payload is alive.
C6_Witness ==
    /\ Quiet
    /\ \E b \in Blocks :
          /\ payloadOf[b] # Null /\ pay[payloadOf[b]] = "live"
          /\ refCount[b] = 1
          /\ \E h \in OwnSPs :
                /\ Holders(b) = {h}
                /\ \A o \in OwnSPs \ {h} : spAlive[o] /\ sp[o] = Null

\* The handler of thread t returns with this step.
Returns(t, name) == op[t] = name /\ op'[t] = ""

\* C7: with nothing else running, GetSP on a WP that is empty or whose block
\* has strong count 0 gives an empty SP and changes neither the counts nor
\* the WP; a following Drop of the last WP of such a block releases the
\* storage of the block.
C7_GetSPOfDeadBlockIsEmpty ==
    [][\A t \in Threads, w \in WPs :
          /\ \A h \in PromotedSPs :
                (WP_GetSP(t, w, h) /\ (wp[w] = Null \/ refCount[wp[w]] = 0)) =>
                    /\ spAlive'[h] /\ SP_IsNull(h)'
                    /\ Idle(t)'
                    /\ UNCHANGED <<refCount, weakRefCount, wp, wpAlive>>
                    /\ UNCHANGED <<alive, ptr, pay, tdCount>>
          /\ (/\ Returns(t, "WP_Drop")
               /\ wp[w] # Null /\ W(w) \in busy[t]
               /\ Watchers(wp[w]) = {w}
               /\ refCount[wp[w]] = 0) =>
                    /\ alive'[wp[w]] = "freed" /\ frees'[wp[w]] = 1
                    /\ wp'[w] = Null]_vars

\* A GetSP has given an empty SP on a WP whose block has strong count 0 and
\* is kept by the WP.
C7_Witness ==
    /\ Quiet
    /\ \E h \in PromotedSPs, w \in WPs :
          /\ spAlive[h] /\ sp[h] = Null
          /\ wpAlive[w] /\ wp[w] # Null
          /\ alive[wp[w]] = "live"
          /\ refCount[wp[w]] = 0 /\ weakRefCount[wp[w]] = 1
          /\ payloadOf[wp[w]] # Null /\ tdCount[payloadOf[wp[w]]] = 1

C9_AssignOfSameBlockIsNoOp ==
    [][\A t \in Threads, h, o \in SPs :
          ((SP_Assign(t, h, o) \/ SP_MoveAssign(t, h, o))
             /\ (o = h \/ sp[o] = sp[h])) =>
                (Idle(t)' /\ UNCHANGED <<sp, spAlive, refCount, weakRefCount>>)]_vars

\* A step of a handler that releases one SP.
Releasing_SP(t) == op[t] \in {"SP_Delete", "SP_Dtor"}

\* C10: a copy compares equal to its source; releasing an SP changes that SP
\* only and the strong count of its block by one; the SPs that still hold a
\* block with a positive strong count compare equal and reach the payload
\* the block was built around, alive.
C10_CopiesAreEqualAndIndependent ==
    [][/\ \A t \in Threads, h, o \in SPs :
            SP_Copy(t, h, o) => (sp'[h] = sp[o] /\ SP_Equal(h, o)' /\ sp'[o] = sp[o])
       /\ \A t \in Threads, h \in SPs :
            (SP_Delete(t, h) \/ SP_Dtor(t, h)) =>
                /\ UNCHANGED <<refCount, weakRefCount>>
                /\ \A o \in SPs \ {h} : sp'[o] = sp[o] /\ spAlive'[o] = spAlive[o]
       /\ \A t \in Threads :
            Releasing_SP(t) =>
                /\ \A o \in SPs : S(o) \notin busy[t] =>
                                       (sp'[o] = sp[o] /\ spAlive'[o] = spAlive[o])
                /\ \A o \in SPs : S(o) \in busy[t] =>
                                       (Returns(t, op[t]) => (~spAlive'[o] \/ sp'[o] = Null))
                /\ UNCHANGED weakRefCount
                /\ refCount' = IF IO_DecRef(t)
                               THEN [refCount EXCEPT ![CallBlock(t)] = @ - 1]
                               ELSE refCount
       /\ Quiet' =>
            \A b \in Blocks : refCount'[b] > 0 =>
                \A o, o2 \in Holders(b)' :
                    /\ SP_Equal(o, o2)'
                    /\ SP_UnsafeAccess(o)' = payloadOf'[b]
                    /\ payloadOf'[b] # Null => pay'[payloadOf'[b]] = "live"]_vars

\* One of three SPs of a block has been released; the other two hold the
\* block, compare equal and reach the payload.
C10_Witness ==
    /\ Quiet
    /\ \E b \in Blocks, h \in OwnSPs :
          /\ spAlive[h] /\ sp[h] = Null
          /\ Holders(b) = OwnSPs \ {h}
          /\ refCount[b] = 2
          /\ payloadOf[b] # Null /\ pay[payloadOf[b]] = "live"
          /\ \A o \in Holders(b) : SP_UnsafeAccess(o) = payloadOf[b]

\* The block the source of the running move assignment referenced when the
\* assignment started: the value the handler will give the destination.
MovedBlock(t) == Head(todo[t]).set[1][3]
\* The counts of block b are left as they are.
CountsKept(b) ==
    b # Null => (refCount'[b] = refCount[b] /\ weakRefCount'[b] = weakRefCount[b])

\* C11 as stated: move construction and move assignment of an SP or a WP
\* from another object leave the source empty, make the destination reference the block
\* the source referenced, and change neither count of that block at any
\* step.
C11_MoveKeepsCounts ==
    [][\A t \in Threads :
          /\ \A h, o \in SPs :
                /\ SP_Move(t, h, o) =>
                      (sp'[h] = sp[o] /\ sp'[o] = Null /\ CountsKept(sp[o]))
                /\ (SP_MoveAssign(t, h, o) /\ o # h) =>
                      /\ CountsKept(sp[o])
                      /\ Idle(t)' => (sp'[h] = sp[o] /\ sp'[o] = Null)
          /\ \A w, o \in WPs :
                /\ WP_Move(t, w, o) =>
                      (wp'[w] = wp[o] /\ wp'[o] = Null /\ CountsKept(wp[o]))
                /\ (WP_MoveAssign(t, w, o) /\ o # w) =>
                      /\ CountsKept(wp[o])
                      /\ Idle(t)' => (wp'[w] = wp[o] /\ wp'[o] = Null)
          /\ op[t] = "SP_MoveAssign" =>
                /\ CountsKept(MovedBlock(t))
                /\ Returns(t, "SP_MoveAssign") =>
                      \E h, o \in SPs :
                          /\ busy[t] = {S(h), S(o)} /\ h # o
                          /\ sp'[h] = MovedBlock(t) /\ sp'[o] = Null
          /\ op[t] = "WP_MoveAssign" =>
                /\ CountsKept(MovedBlock(t))
                /\ Returns(t, "WP_MoveAssign") =>
                      \E w, o \in WPs :
                          /\ busy[t] = {W(w), W(o)} /\ w # o
                          /\ wp'[w] = MovedBlock(t) /\ wp'[o] = Null]_vars

\* C11, amended: move construction of an SP or a WP, and move assignment
\* from another object that does not reference the block of the
\* destination, leave the source empty, make the destination reference the
\* block the source referenced, and change neither count of that block at
\* any step.
C11_MoveFromOtherBlockKeepsCounts ==
    [][\A t \in Threads :
          /\ \A h, o \in SPs :
                /\ SP_Move(t, h, o) =>
                      (sp'[h] = sp[o] /\ sp'[o] = Null /\ CountsKept(sp[o]))
                /\ (SP_MoveAssign(t, h, o) /\ o # h /\ sp[o] # sp[h]) =>
                      /\ CountsKept(sp[o])
                      /\ Idle(t)' => (sp'[h] = sp[o] /\ sp'[o] = Null)
          /\ \A w, o \in WPs :
                /\ WP_Move(t, w, o) =>
                      (wp'[w] = wp[o] /\ wp'[o] = Null /\ CountsKept(wp[o]))
                /\ (WP_MoveAssign(t, w, o) /\ o # w /\ wp[o] # wp[w]) =>
                      /\ CountsKept(wp[o])
                      /\ Idle(t)' => (wp'[w] = wp[o] /\ wp'[o] = Null)
          /\ (op[t] = "SP_MoveAssign" /\ MovedBlock(t) # CallBlock(t)) =>
                /\ CountsKept(MovedBlock(t))
                /\ Returns(t, "SP_MoveAssign") =>
                      \E h, o \in SPs :
                          /\ busy[t] = {S(h), S(o)} /\ h # o
                          /\ sp'[h] = MovedBlock(t) /\ sp'[o] = Null
          /\ (op[t] = "WP_MoveAssign" /\ MovedBlock(t) # CallBlock(t)) =>
                /\ CountsKept(MovedBlock(t))
                /\ Returns(t, "WP_MoveAssign") =>
                      \E w, o \in WPs :
                          /\ busy[t] = {W(w), W(o)} /\ w # o
                          /\ wp'[w] = MovedBlock(t) /\ wp'[o] = Null]_vars

\* A move assignment between SPs of different blocks is under way: it has
\* released the block of the destination and not touched the block it moves.
C11_Witness ==
    \E t \in Threads :
        /\ op[t] = "SP_MoveAssign" /\ pc[t] = "dr_unlock"
        /\ MovedBlock(t) # Null /\ MovedBlock(t) # CallBlock(t)
        /\ refCount[MovedBlock(t)] = Cardinality(Holders(MovedBlock(t)))

\* C12: Delete on an empty SP and Drop on an empty WP do nothing: no call is
\* made, no count and no handle changes.  A Delete or Drop on a set handle
\* decrements the count of its block once and leaves the handle empty, so a
\* second one on the same handle is the one that does nothing.
C12_ReleaseOfEmptyIsNoOp ==
    [][\A t \in Threads :
          /\ \A h \in SPs :
                (SP_Delete(t, h) /\ sp[h] = Null) =>
                    (Idle(t)' /\ UNCHANGED <<ioVars, spVars, wpVars>>)
          /\ \A w \in WPs :
                (WP_Drop(t, w) /\ wp[w] = Null) =>
                    (Idle(t)' /\ UNCHANGED <<ioVars, spVars, wpVars>>)
          /\ (op[t] = "SP_Delete" /\ IO_DecRef(t)) =>
                refCount' = [refCount EXCEPT ![CallBlock(t)] = @ - 1]
          /\ (op[t] = "WP_Drop" /\ IO_DecWeakRef(t)) =>
                weakRefCount' = [weakRefCount EXCEPT ![CallBlock(t)] = @ - 1]
          /\ Returns(t, "SP_Delete") =>
                \A h \in SPs : S(h) \in busy[t] => (spAlive'[h] /\ sp'[h] = Null)
          /\ Returns(t, "WP_Drop") =>
                \A w \in WPs : W(w) \in busy[t] => (wpAlive'[w] /\ wp'[w] = Null)]_vars

\* An SP and a WP have been released and are empty, where a Delete and a
\* Drop do nothing; the block they referenced is gone.
C12_Witness ==
    /\ Quiet
    /\ \E h \in SPs, w \in WPs, b \in Blocks :
          /\ spAlive[h] /\ sp[h] = Null
          /\ wpAlive[w] /\ wp[w] = Null
          /\ alive[b] = "freed" /\ refCount[b] = 0 /\ weakRefCount[b] = 0
          /\ Holders(b) = {} /\ Watchers(b) = {}

\* C13: when no handler runs, IsNull of a WP is true exactly when the WP has
\* no block or the strong count of its block is 0 (the payload is released),
\* and it is false while an SP, one from GetSP included, holds the block.
\* Stated for the blocks that were built around an object.
C13_IsNullTracksStrongCount ==
    Quiet =>
        \A w \in WPs : wpAlive[w] =>
            /\ wp[w] = Null => WP_IsNull(w)
            /\ (wp[w] # Null /\ payloadOf[wp[w]] # Null) =>
                  /\ WP_IsNull(w) <=> (refCount[wp[w]] = 0)
                  /\ Holders(wp[w]) # {} => ~WP_IsNull(w)

\* C14: WPs never postpone the teardown of a payload: the DecRef that takes
\* the strong count of a block to 0 tears the payload down in that step,
\* whatever the weak count is, and from then on every WP of the block finds
\* it gone: IsNull is true and the test of GetSP fails.
C14_WeakNeverPostponesTeardown ==
    [][/\ \A t \in Threads :
            (/\ IO_DecRef(t)
             /\ refCount[CallBlock(t)] = 1
             /\ payloadOf[CallBlock(t)] # Null) =>
                /\ tdCount'[payloadOf[CallBlock(t)]] = 1
                /\ pay'[payloadOf[CallBlock(t)]] = "deleted"
                /\ ptr'[CallBlock(t)] = Null
       /\ \A w \in WPs :
            (/\ wpAlive'[w] /\ wp'[w] # Null
             /\ payloadOf'[wp'[w]] # Null
             /\ tdCount'[payloadOf'[wp'[w]]] > 0) =>
                /\ pay'[payloadOf'[wp'[w]]] = "deleted"
                /\ WP_IsNull(w)'
                /\ ~SP_FromInternal_useful(wp[w])']_vars

\* The last SP of a block was released while two WPs, one a copy of the
\* other, were on it: the payload is torn down and both WPs find it gone.
C14_Witness ==
    \E b \in Blocks :
        /\ alive[b] = "live" /\ refCount[b] = 0 /\ weakRefCount[b] = 2
        /\ Watchers(b) = WPs
        /\ payloadOf[b] # Null /\ tdCount[payloadOf[b]] = 1
        /\ \A w \in WPs : WP_IsNull(w)

\* C16: operator new on a non-empty cache returns the block at the back of
\* the cache, the one pushed last, and removes it, allocating nothing; on an
\* empty cache it allocates a block; either way sm_inUse grows by one.
C16_NewTakesBackOfCache ==
    [][\A t \in Threads :
          MC_New(t) =>
              /\ sm_inUse' = sm_inUse + 1
              /\ LastOp'.kind = "new" /\ holder'[LastOp'.m] = t
              /\ sm_cache # <<>> =>
                    /\ ~LastOp'.fresh
                    /\ LastOp'.m = sm_cache[Len(sm_cache)]
                    /\ sm_cache' = SubSeq(sm_cache, 1, Len(sm_cache) - 1)
              /\ sm_cache = <<>> =>
                    /\ LastOp'.fresh
                    /\ LastOp'.m \in FreeMems
                    /\ sm_cache' = <<>>]_vars

\* An operator new has been served from the cache.
C16_Witness == mcLog # <<>> /\ LastOp.kind = "new" /\ ~LastOp.fresh

\* The larger of 0 and n.
Max0(n) == IF n > 0 THEN n ELSE 0

\* C17: operator delete pushes the block, decrements sm_inUse, takes the
\* target floor( sm_inUse * 50 / 100 ) of the decremented count and frees
\* max( 0, size - target ) blocks from the back of the cache: the block just
\* released goes first, the blocks that stay are the oldest.
C17_DeleteEvictsFromBack ==
    [][\A t \in Threads, m \in Mems :
          MC_Delete(t, m) =>
              LET pushed == Append(sm_cache, m)
                  target == ((sm_inUse - 1) * 50) \div 100
                  n == Max0(Len(pushed) - target)
              IN  /\ sm_inUse' = sm_inUse - 1
                  /\ sm_cache' = SubSeq(pushed, 1, Len(pushed) - n)
                  /\ n > 0 => (m \in FreeMems' /\ m \notin Cached')
                  /\ \A i \in DOMAIN sm_cache' : sm_cache'[i] = pushed[i]
                  /\ \A x \in (Cached \cup {m}) \ Cached' : x \in FreeMems']_vars

\* An operator delete has freed the block it was given and left older
\* blocks in the cache.
C17_Witness ==
    /\ AfterDelete
    /\ LastOp.m \in FreeMems
    /\ Len(sm_cache) >= 1

\* The memory blocks that objects live in.
Outstanding == {m \in Mems : holder[m] # 0}

\* C18: sm_inUse is the number of blocks handed out by operator new and not
\* yet given to operator delete; it is never negative, and 0 when no block
\* is outstanding.
C18_InUseCountsOutstanding ==
    /\ sm_inUse = Cardinality(Outstanding)
    /\ sm_inUse >= 0
    /\ Outstanding = {} => sm_inUse = 0

\* Two blocks were handed out and both given back: sm_inUse is 0 again.
C18_Witness ==
    /\ Len(mcLog) = 2
    /\ PrevOp.kind = "delete" /\ LastOp.kind = "delete"
    /\ PrevOp.m # LastOp.m
    /\ sm_inUse = 0 /\ Outstanding = {}

\* C19: when the allocation inside operator new fails, no block is handed
\* out, sm_inUse and the cache stay as they were, and sm_lock is released,
\* so that later calls of operator new and operator delete can run.
C19_FailedNewReleasesLock ==
    [][\A t \in Threads :
          MC_NewFails(t) =>
              /\ UNCHANGED <<sm_inUse, sm_cache, holder>>
              /\ sm_lock' = 0]_vars

\* C15: when operator=( UP&& ) of an SP returns, the SP references a block
\* that did not exist before, with strong count 1 and weak count 0, around
\* the payload the UP held; the UP is empty and still constructed, and no
\* payload has been torn down by the assignment.  The payload of such a block
\* is torn down only by the DecRef that takes the strong count of the block
\* to 0, once, while no UP holds it; a released block has had its payload
\* torn down exactly once.
C15_UPMovedIntoSP ==
    [][/\ \A h \in UPTargetSPs, u \in UPs :
              (Returns(1, "SP_AssignUP") /\ S(h) \in busy[1] /\ U(u) \in busy[1]) =>
                  /\ sp'[h] # Null
                  /\ alive[sp'[h]] = "unalloc" /\ alive'[sp'[h]] = "live"
                  /\ refCount'[sp'[h]] = 1 /\ weakRefCount'[sp'[h]] = 0
                  /\ ptr'[sp'[h]] = up[u]
                  /\ up'[u] = Null /\ upAlive'[u]
                  /\ tdCount' = tdCount /\ pay' = pay
       /\ \A b \in Blocks :
              (payloadOf[b] # Null /\ tdCount'[payloadOf[b]] # tdCount[payloadOf[b]]) =>
                  /\ tdCount[payloadOf[b]] = 0 /\ tdCount'[payloadOf[b]] = 1
                  /\ CallIs(1, "DecRef") /\ CallBlock(1) = b
                  /\ refCount'[b] = 0
                  /\ \A u \in UPs : up[u] # payloadOf[b]
       /\ \A b \in Blocks :
              (payloadOf'[b] # Null /\ (alive'[b] = "freed" \/ refCount'[b] = 0)) =>
                  tdCount'[payloadOf'[b]] = 1]_vars
\* An SP holds the only reference of a block around a live payload that a
\* UP, now empty, has handed over.
C15_Witness ==
    /\ Quiet
    /\ \E h \in UPTargetSPs, u \in UPs :
          /\ spAlive[h] /\ sp[h] # Null
          /\ refCount[sp[h]] = 1 /\ weakRefCount[sp[h]] = 0
          /\ ptr[sp[h]] # Null /\ pay[ptr[sp[h]]] = "live"
          /\ tdCount[ptr[sp[h]]] = 0
          /\ upAlive[u] /\ up[u] = Null
    /\ \E b \in Blocks : payloadOf[b] # Null /\ alive[b] = "freed"
                           /\ tdCount[payloadOf[b]] = 1

\* C20: a payload is held by at most one UP; a move construction or a move
\* assignment from a UP that holds a payload leaves that UP empty and does
\* not tear the payload down, and a different destination holds the payload
\* afterwards; a payload held by a UP is torn down at most once, by a step
\* after which no UP holds it.
C20_UPOwnsExclusively ==
    [][/\ \A u, o \in UPs :
              ((UP_Move(1, u, o) \/ UP_MoveAssign(1, u, o)) /\ up[o] # Null) =>
                  /\ up'[o] = Null \/ o = u
                  /\ tdCount'[up[o]] = tdCount[up[o]]
                  /\ up'[u] = up[o]
       /\ \A u, o \in UPs : (u # o /\ up'[u] # Null) => up'[u] # up'[o]
       /\ \A p \in Payloads :
              (tdCount'[p] # tdCount[p] /\ \E u \in UPs : up[u] = p) =>
                  /\ tdCount[p] = 0 /\ tdCount'[p] = 1
                  /\ \A u \in UPs : up'[u] # p]_vars

\* C21: a step of a TP method (construction, from a UP, an SP or a TP,
\* assignment, Release, destruction) changes no strong or weak count, tears
\* down no payload, releases no block and leaves every UP and every SP as it
\* was; only the TP objects change.
C21_TPHasNoLifecycleEffect ==
    [][TP_Step(1) =>
          /\ UNCHANGED <<refCount, weakRefCount>>
          /\ UNCHANGED <<tdCount, pay, ptr, alive, frees>>
          /\ UNCHANGED <<upVars, spVars, wpVars>>]_vars
\* A TP built from an SP aliases the payload of a block whose strong count is
\* still 1, a TP built from a UP aliases the payload the UP still holds, and
\* no payload has been torn down.
C21_Witness ==
    /\ Quiet
    /\ \E x \in TPs, h \in UPTargetSPs :
          /\ tpAlive[x] /\ tp[x] # Null
          /\ spAlive[h] /\ sp[h] # Null /\ ptr[sp[h]] = tp[x]
          /\ refCount[sp[h]] = 1 /\ weakRefCount[sp[h]] = 0
    /\ \E x \in TPs, u \in UPs :
          tpAlive[x] /\ tp[x] # Null /\ upAlive[u] /\ up[u] = tp[x]
    /\ \A q \in Payloads : tdCount[q] = 0

\* C22: with every handle used by one thread at a time, an SP or WP that no
\* handler is using never references a released block, and no call into
\* InternalObject (AddRef, DecRef, AddWeakRef, DecWeakRef: each locks the
\* block and reads its counts) is made on or runs in a released block.
C22_NoReferenceToReleasedBlock ==
    /\ \A h \in SPs : (spAlive[h] /\ sp[h] # Null /\ S(h) \notin AllBusy) =>
                           alive[sp[h]] = "live"
    /\ \A w \in WPs : (wpAlive[w] /\ wp[w] # Null /\ W(w) \notin AllBusy) =>
                           alive[wp[w]] = "live"
    /\ NoUseAfterFree
\* One block has been released; a WP keeps another block whose strong count
\* is 0, and a thread is in a call into that block.
C22_Witness ==
    /\ \E b \in Blocks : alive[b] = "freed"
    /\ \E w \in WPs, t \in Threads :
          /\ wpAlive[w] /\ wp[w] # Null /\ W(w) \notin AllBusy
          /\ refCount[wp[w]] = 0 /\ alive[wp[w]] = "live"
          /\ todo[t] # <<>> /\ Head(todo[t]).call # "New" /\ CallBlock(t) = wp[w]

\* C23: in a live block the payload slot m_ptr is set only while the strong
\* count is above 0, and a slot that is empty stays empty as long as the
\* block lives (a strong count that leaves 0 again does not fill it).
C23_PayloadOnlyWhileStrong ==
    [][\A b \in Blocks :
          alive'[b] = "live" =>
              /\ ptr'[b] # Null => refCount'[b] > 0
              /\ (alive[b] = "live" /\ ptr[b] = Null) => ptr'[b] = Null]_vars
\* A WP keeps a block whose strong count has reached 0: its payload has been
\* torn down and its slot is empty.
C23_Witness ==
    \E b \in Blocks :
        /\ alive[b] = "live" /\ refCount[b] = 0 /\ ptr[b] = Null
        /\ payloadOf[b] # Null /\ tdCount[payloadOf[b]] = 1
        /\ Watchers(b) # {}

\* C24: when no handler is running, the strong count of every live block is
\* the number of SP objects that reference the block.
C24_StrongCountIsNumberOfSPs ==
    Quiet => \A b \in Blocks :
                alive[b] = "live" => refCount[b] = Cardinality(Holders(b))
\* No handler is running and a block has strong count 2: an SP and the SP a
\* GetSP has returned reference it, next to a WP.
C24_Witness ==
    /\ Quiet
    /\ \E b \in Blocks :
          /\ alive[b] = "live" /\ refCount[b] = 2
          /\ Cardinality(Holders(b)) = 2
          /\ Holders(b) \cap PromotedSPs # {}
          /\ Watchers(b) # {}

\* C25: when no handler is running, the weak count of every live block is the
\* number of WP objects that reference the block.
C25_WeakCountIsNumberOfWPs ==
    Quiet => \A b \in Blocks :
                alive[b] = "live" => weakRefCount[b] = Cardinality(Watchers(b))
\* No handler is running and two WP objects reference a block whose weak
\* count is 2 and whose strong count has reached 0.
C25_Witness ==
    /\ Quiet
    /\ \E b \in Blocks :
          /\ alive[b] = "live" /\ weakRefCount[b] = 2
          /\ Cardinality(Watchers(b)) = 2
          /\ refCount[b] = 0

\* C26: the teardown of the payload of a block never runs inside the critical
\* section of the block: after a step that has torn the payload of block b
\* down, no thread holds the lock of b.
C26_TeardownOutsideLock ==
    [][\A b \in Blocks :
          (ptr[b] # Null /\ tdCount'[ptr[b]] # tdCount[ptr[b]]) => lock'[b] = 0]_vars

\* C28: DecRef and DecWeakRef set deleteMe only while they hold the lock of
\* the block; the step that releases a block finds its lock free and leaves
\* it free, and at that step no other thread is in or waiting for a call
\* into the block.
C28_ReleasedWithLockFree ==
    [][/\ \A t \in Threads :
              (deleteMe'[t] /\ ~deleteMe[t]) => lock'[CallBlock(t)] = t
       /\ \A b \in Blocks :
              (alive[b] = "live" /\ alive'[b] = "freed") =>
                  /\ lock[b] = 0 /\ lock'[b] = 0
                  /\ \A u \in Threads :
                        (todo[u] # <<>> /\ Head(todo[u]).call # "New" /\ CallBlock(u) = b)
                            => (deleteMe[u] /\ pc[u] \in {"dr_delete", "dw_delete"})]_vars
\* A thread is about to release a block from DecWeakRef, the lock of the block
\* is free, and the other thread is in a call into another block.
C28_Witness ==
    \E t, u \in Threads :
        /\ t # u /\ todo[t] # <<>> /\ pc[t] = "dw_delete" /\ deleteMe[t]
        /\ lock[CallBlock(t)] = 0
        /\ todo[u] # <<>> /\ Head(todo[u]).call # "New"
        /\ CallBlock(u) # CallBlock(t)

\* The number of times block m is in the vector of the cache.
TimesCached(m) == Cardinality({i \in DOMAIN sm_cache : sm_cache[i] = m})

\* C29: with the threads calling operator new and operator delete in any
\* order, each on blocks its own objects live in, every block is held by a
\* caller and not in the cache, or once in the cache and not held, or with
\* the allocator; operator new hands out only a block no caller holds, and a
\* block goes back to the allocator only from the cache or from the caller
\* that has just given it to operator delete, which then no longer holds it.
C29_BlockInOnePlace ==
    [][\A m \in Mems :
          /\ TimesCached(m)' <= 1
          /\ holder'[m] # 0 => TimesCached(m)' = 0
          /\ (holder'[m] # holder[m] /\ holder'[m] # 0) =>
                 /\ holder[m] = 0
                 /\ LastOp'.kind = "new" /\ LastOp'.m = m /\ LastOp'.t = holder'[m]
          /\ (m \notin FreeMems /\ m \in FreeMems') =>
                 /\ LastOp'.kind = "delete"
                 /\ holder[m] \in {0, LastOp'.t}
                 /\ holder[m] = 0 => TimesCached(m) = 1]_vars
\* Both threads hold blocks, one block is in the cache and one has gone back
\* to the allocator after it was handed out.
C29_Witness ==
    /\ \A t \in Threads : \E m \in Mems : holder[m] = t
    /\ Len(sm_cache) >= 1
    /\ Len(mcLog) = 2 /\ PrevOp.kind = "delete" /\ LastOp.kind = "delete"
    /\ PrevOp.t # LastOp.t
    /\ PrevOp.m \in FreeMems

\* C30: whenever sm_lock is free the cache holds at most
\* sm_inUse * CACHE_RATE / 100 blocks, after an operator new as well as
\* after an operator delete.
C30_CacheBoundAlways ==
    sm_lock = 0 => Len(sm_cache) <= IntDiv(sm_inUse * CACHE_RATE, 100)
\* An operator new has just taken a block from the cache and the cache still
\* holds one; fewer objects are in use than there were at the peak.
C30_Witness ==
    /\ sm_lock = 0
    /\ Len(mcLog) = 2 /\ LastOp.kind = "new" /\ ~LastOp.fresh
    /\ Len(sm_cache) >= 1
    /\ sm_inUse < NMem

\* C27: under a fair scheduler every handler a thread has started comes to
\* its end, also when the destructor of a payload drops a WP of the block
\* being torn down or of another block.
C27_EveryOperationTerminates ==
    \A t \in Threads : (todo[t] # <<>>) ~> (todo[t] = <<>>)

\* The assignment operators of SP that make it reference another block.
AssignOps == {"SP_Assign", "SP_MoveAssign", "SP_AssignRaw", "SP_AssignUP"}
\* The calls of DecRef thread t has still to make in its handler.
DecRefCalls(t) == {i \in DOMAIN todo[t] : todo[t][i].call = "DecRef"}
\* SP h, which references a block, is assigned something that is not this block.
AssignsOtherBlock(h) ==
    /\ sp[h] # Null
    /\ \/ \E o \in AssignSPs : sp[o] # sp[h] /\ (SP_Assign(1, h, o) \/ SP_MoveAssign(1, h, o))
       \/ \E p \in Payloads \cup {Null} : SP_AssignRaw(1, h, p)
       \/ \E u \in AssignUPs : SP_AssignUP(1, h, u)

\* C31: an assignment that makes an SP that references a block reference
\* something else (copy assignment, move assignment, assignment of a raw
\* pointer, assignment of a UP) calls DecRef once, first of all and on the
\* block the SP referenced; that DecRef takes 1 from the strong count of this
\* block and of no other, and tears the payload down exactly when the count
\* reaches 0; when the assignment returns, the strong count of every live
\* block is the number of SP objects that reference it, the SP assigned to
\* being one of those of its new block.
C31_AssignReleasesOldBlockOnce ==
    [][/\ \A h \in AssignSPs :
              AssignsOtherBlock(h) =>
                  /\ DecRefCalls(1)' = {1}
                  /\ todo'[1][1].b = sp[h]
       /\ (op[1] \in AssignOps /\ IO_DecRef(1)) =>
              /\ refCount' = [refCount EXCEPT ![CallBlock(1)] = @ - 1]
              /\ refCount'[CallBlock(1)] >= 0
              /\ \A q \in Payloads :
                    tdCount'[q] = IF q = ptr[CallBlock(1)] /\ refCount'[CallBlock(1)] = 0
                                  THEN tdCount[q] + 1 ELSE tdCount[q]
       /\ (op[1] \in AssignOps /\ op'[1] = "") =>
              /\ \A b \in Blocks :
                    alive'[b] = "live" =>
                        /\ Holders(b)' # {}
                        /\ refCount'[b] = Cardinality(Holders(b)')
              /\ \A h \in AssignSPs :
                    (spAlive'[h] /\ sp'[h] # Null) => alive'[sp'[h]] = "live"]_vars
\* Inside a copy assignment: the DecRef has torn down the payload of the block
\* the SP referenced and released the block, the SP references the block of
\* the other SP, and the AddRef for it comes next.
C31_Witness ==
    /\ op[1] = "SP_Assign" /\ CallIs(1, "AddRef")
    /\ refCount[CallBlock(1)] = 1
    /\ Cardinality(Holders(CallBlock(1))) = 2
    /\ \E b \in Blocks : /\ freedBy[b] = "DecRef"
                           /\ payloadOf[b] # Null /\ tdCount[payloadOf[b]] = 1

\* C32: DecRef runs only on a block whose strong count is above 0 and
\* DecWeakRef only on a block whose weak count is above 0; no count of any
\* block is ever below 0, which for the unsigned counters would be a
\* wrap-around.
C32_CountsNeverWrap ==
    [][/\ \A t \in Threads :
              /\ IO_DecRef(t) => refCount[CallBlock(t)] > 0
              /\ IO_DecWeakRef(t) => weakRefCount[CallBlock(t)] > 0
       /\ \A b \in Blocks : refCount'[b] >= 0 /\ weakRefCount'[b] >= 0]_vars
\* One thread is about to call DecRef on a block whose strong count is 1
\* while the other is about to call DecWeakRef on it, its weak count being 1.
C32_Witness ==
    \E t, u \in Threads :
        /\ t # u
        /\ CallIs(t, "DecRef") /\ CallIs(u, "DecWeakRef")
        /\ CallBlock(t) = CallBlock(u)
        /\ refCount[CallBlock(t)] = 1 /\ weakRefCount[CallBlock(t)] = 1

\* C33: an operator delete that starts with the cache within
\* sm_inUse * CACHE_RATE / 100 ends its loop having given at most two blocks
\* back to the allocator: the vector shrinks by at most one next to the
\* block pushed.
C33_DeleteFreesAtMostTwo ==
    [][\A t \in Threads, m \in Mems :
          (MC_Delete(t, m) /\ Len(sm_cache) <= IntDiv(sm_inUse * CACHE_RATE, 100)) =>
              /\ Len(sm_cache) + 1 - Len(sm_cache') \in 0..2
              /\ Cardinality(FreeMems' \ FreeMems) = Len(sm_cache) + 1 - Len(sm_cache')]_vars
\* Two operator delete in a row, the second with four objects in use and two
\* blocks in the cache: it has freed its own block and the block of the
\* first, and one block is left in the cache.
C33_Witness ==
    /\ Len(mcLog) = 2 /\ PrevOp.kind = "delete" /\ LastOp.kind = "delete"
    /\ sm_inUse = 3 /\ Len(sm_cache) = 1
    /\ {PrevOp.m, LastOp.m} \subseteq FreeMems
    /\ PrevOp.m # LastOp.m

\* The state of control block b that its handles can observe is the same
\* after the step as before it.
BlockKept(b) ==
    /\ refCount'[b] = refCount[b]
    /\ weakRefCount'[b] = weakRefCount[b]
    /\ ptr'[b] = ptr[b]
    /\ alive'[b] = alive[b]
    /\ payloadOf[b] # Null =>
           /\ pay'[payloadOf[b]] = pay[payloadOf[b]]
           /\ tdCount'[payloadOf[b]] = tdCount[payloadOf[b]]
\* The pool and the counter of consumer type ty are the same after the step.
PoolKept(ty) ==
    /\ sm_inUseOf'[ty] = sm_inUseOf[ty]
    /\ sm_cacheOf'[ty] = sm_cacheOf[ty]
\* The handlers that copy, move, promote, release or drop one handle.
OneBlockOps == {"SP_Copy", "SP_Move", "SP_Dtor", "SP_Delete",
                "WP_FromSP", "WP_Dtor", "WP_GetSP", "WP_Drop"}

C35_TargetIsExactForEveryInUse ==
    [][MC32_Delete => /\ ~Overflows(inUse32')
                      /\ target32' = [ok |-> TRUE, v |-> WideTarget(inUse32')]]_vars
====
